---- MODULE Spec2Model ----
(***************************************************************************)
(* Model of the crawl orchestration of the books crawler:                  *)
(*   crawler/scraper.py   BookScraper (fetch_with_retry, scrape_book,      *)
(*                        get_all_book_urls, crawl_all_books), run_crawler *)
(*   crawler/storage.py   BookStorage (store_html_snapshot, upsert_book,   *)
(*                        save_crawl_progress)                             *)
(*   main.py              the crawl command                                *)
(*                                                                         *)
(* The program runs on one asyncio event loop: the code between two awaits *)
(* is one atomic step.  Each action below is one such step of one          *)
(* coroutine; the responses of the network and of the database are the     *)
(* nondeterministic inputs.                                                *)
(***************************************************************************)
EXTENDS Integers, Sequences, FiniteSets, TLC

\* ------------------------------------------------------------------ bounds
\* Item addresses are 1..NumUrls, listing pages are 1..MaxPages.
NumUrls == 2
MaxPages == 2
\* The most links the extractor returns for one listing page, and the most
\* links the whole catalog lists.
MaxLinks == 2
MaxBooks == 3
\* settings.crawler_concurrency, scaled down so that a batch exceeds it.
crawler_concurrency == 1
\* batch_size of crawl_all_books, scaled down so that a run has several batches.
batch_size == 2
\* The most upsert_book calls in progress together (SpecStore).
MaxCalls == 3

\* ------------------------------------------------------- program constants
\* settings.crawler_max_retries
max_retries == 3

Urls == 1..NumUrls
\* Listing pages; current_url = 0 stands for None (no page).
Pages == 1..MaxPages

\* Every list of at most n elements of S.
BoundedSeq(S, n) == UNION {[1..k -> S] : k \in 0..n}

\* The lists of ss one after the other (list.extend, the text json.dumps
\* builds piece by piece).
RECURSIVE Concat(_)
Concat(ss) == IF ss = <<>> THEN <<>> ELSE Head(ss) \o Concat(Tail(ss))

VARIABLES
    cpc,              \* position of crawl_all_books / run_crawler
    resume,           \* the resume argument of the run
    semaphore,        \* free permits of self.semaphore
    dfetch,           \* the fetch_with_retry call of get_all_book_urls
    sync_client,      \* db.sync_client is set (get_sync_client was called)
    current_url,      \* get_all_book_urls: listing page being walked, or None
    first_page_failed,\* the fetch of the first listing page gave up after its retries
    pages_seen,       \* number of listing pages that arrived with content
    page_links,       \* the links extract_book_links returned, listing page by listing page
    failed_page,      \* the listing page whose fetch gave up after its retries (0: none)
    all_book_urls,    \* get_all_book_urls: addresses found so far
    existing_urls,    \* crawl_all_books: keys read from the store (resume)
    book_urls,        \* crawl_all_books: addresses to process
    tasks,            \* one scrape_book coroutine per element of book_urls
    i,                \* crawl_all_books: start of the current batch (0-based)
    total_books,      \* self.total_books
    completed_books,  \* self.completed_books
    failed_urls,      \* self.failed_urls
    progress,         \* the CrawlProgress built last (status "unset": none yet)
    books,            \* db.books: the documents of the collection, in insertion order
    upserts_ok,       \* number of update_one calls the store accepted in this run
    crawl_progress,   \* db.crawl_progress: the documents of the collection
    saved,            \* number of snapshots this run has persisted
    \* fetch_with_retry on its own (SpecFetch)
    responses,        \* what the server answers to the 1st, 2nd, ... client.get
    attempts,         \* number of client.get calls made
    waits,            \* the asyncio.sleep durations, in order
    fetch_result,     \* what fetch_with_retry gave its caller ("pending": nothing yet)
    \* upsert_book on its own (SpecStore)
    calls,            \* the upsert_book calls in progress
    books_before,     \* db.books when the calls were made
    \* generate_content_hash on its own (SpecHash)
    book_data,        \* the two dictionaries passed to generate_content_hash
    content_hash,     \* the two strings it returned ("unset": not yet called)
    \* detect_changes and detect_new_books on their own (SpecChanges)
    old_book,         \* the stored record passed to detect_changes
    new_book,         \* the freshly crawled record passed to detect_changes
    changes,          \* the events detect_changes returned
    current_urls,     \* the keys of the current crawl passed to detect_new_books
    stored_urls,      \* the stored keys passed to detect_new_books
    new_urls,         \* the list detect_new_books returned
    returned,         \* the calls of the change detector that have returned
    \* save_crawl_progress and get_crawl_progress on their own (SpecProgress)
    saves,            \* the progress records the store has accepted, oldest first
    save_calls,       \* number of save_crawl_progress calls made
    got,              \* what the last get_crawl_progress call returned
    \* get_all_book_urls on its own (SpecDiscovery)
    catalog,          \* the site: the links and the next-page link of each listing page
    visited,          \* the listing pages fetched, in order
    \* one request to the API (SpecApi)
    request,          \* the request: its endpoint, its X-API-Key header, its other parameters
    handler,          \* how far the request has got
    status_code,      \* the status of the response (0: no response yet)
    body_ran,         \* the endpoint function's body was entered
    db_queries,       \* number of database queries made for the request
    \* the change-detection job on its own (SpecJob)
    job,              \* where change_detection_job is
    summary,          \* what run_change_detection returned (empty: nothing yet)
    change_log,       \* db.change_log: the change history
    reports,          \* number of reports generate_change_report has written
    alerts,           \* number of alerts send_alert has sent
    alerts_enabled    \* settings.enable_email_alerts and settings.alert_email are set

\* The variables of fetch_with_retry, upsert_book and generate_content_hash
\* taken on their own; a crawl leaves them alone.
fetch_vars == <<responses, attempts, waits, fetch_result>>
store_vars == <<calls, books_before>>
hash_vars == <<book_data, content_hash>>
change_vars == <<old_book, new_book, changes, current_urls, stored_urls, new_urls, returned>>
slot_vars == <<saves, save_calls, got>>
walk_vars == <<catalog, visited>>
api_vars == <<request, handler, status_code, body_ran, db_queries>>
job_vars == <<job, summary, change_log, reports, alerts, alerts_enabled>>
unit_vars == <<fetch_vars, store_vars, hash_vars, change_vars, slot_vars, walk_vars, api_vars, job_vars>>

vars == <<cpc, resume, semaphore, dfetch, sync_client, current_url,
          first_page_failed, pages_seen, page_links, failed_page,
          all_book_urls, existing_urls, book_urls, tasks, i, total_books,
          completed_books, failed_urls, progress, books, upserts_ok,
          crawl_progress, saved, unit_vars>>

\* ------------------------------------------------------------ fetch_with_retry
\* The local state of one fetch_with_retry call chain (the call and the calls
\* it makes to itself): pc is where it is suspended, retries its argument.
NewFetch == [pc |-> "acquire", retries |-> 0, wait_time |-> 0]
\* No call is active.
NoFetch == [pc |-> "idle", retries |-> 0, wait_time |-> 0]

\* Mutant: the GET is issued without waiting for a permit.
CanAcquire_NoLimit(sem) == TRUE
\* `async with self.semaphore`: entered only when a permit is free.
CanAcquire(sem) == sem > 0
Acquired(sem) == sem - 1
\* Leaving the `async with` block, by return or by exception, frees the permit.
Released(sem) == sem + 1

\* Mutant: one retry too many.
RetryAllowed_OneMore(retries) == retries <= max_retries
\* `if retries < self.max_retries`
RetryAllowed(retries) == retries < max_retries
\* Mutant: the exponent is the number of the attempt, not its index.
WaitTime_FromOne(retries) == 2 ^ (retries + 1)
\* `wait_time = 2 ** retries`
WaitTime(retries) == 2 ^ retries

\* The permit is taken and client.get is awaited.
fetch_enter(f) == [f EXCEPT !.pc = "get"]
\* except (HTTPError, TimeoutException): sleep and call again, or give up.
fetch_except(f) ==
    IF RetryAllowed(f.retries)
    THEN [f EXCEPT !.pc = "sleep", !.wait_time = WaitTime(f.retries)]
    ELSE [f EXCEPT !.pc = "returned"]
\* asyncio.sleep is over: fetch_with_retry(client, url, retries + 1).
fetch_again(f) == [f EXCEPT !.pc = "acquire", !.retries = f.retries + 1]

\* ------------------------------------------------------------ CrawlProgress
\* CrawlProgress(total_pages=self.total_books, completed_pages=self.completed_books,
\*   failed_pages=list(self.failed_urls), status=PARTIAL if self.failed_urls else SUCCESS)
\* failed_pages is a list without duplicates in no specified order: it is
\* modelled by its set of elements, len(failed_pages) by the cardinality.
\* Mutant: a run with a failed address is reported as failed.
StatusOf_Failed(failed) == IF failed # {} THEN "failed" ELSE "success"
\* Mutant: the status ignores the failed set.
StatusOf_NeverPartial(failed) == "success"
StatusOf(failed) == IF failed # {} THEN "partial" ELSE "success"

\* Mutant: the total is the number of addresses processed so far.
MakeProgress_TotalProcessed(total, completed, failed) ==
    [total_pages |-> completed + Cardinality(failed), completed_pages |-> completed,
     failed_pages |-> failed, status |-> StatusOf(failed)]
\* Mutant: completed_pages is reported net of the failures.
MakeProgress_NetOfFailures(total, completed, failed) ==
    [total_pages |-> total, completed_pages |-> completed - Cardinality(failed),
     failed_pages |-> failed, status |-> StatusOf(failed)]
MakeProgress(total, completed, failed) ==
    [total_pages |-> total, completed_pages |-> completed,
     failed_pages |-> failed, status |-> StatusOf(failed)]

\* `progress` before the first CrawlProgress of the run is built.
NoProgress ==
    [total_pages |-> 0, completed_pages |-> 0, failed_pages |-> {}, status |-> "unset"]

\* The document an earlier, finished run left in db.crawl_progress.
EarlierProgress == MakeProgress(MaxBooks, MaxBooks, {})

\* ------------------------------------------------------------ the store
\* book.dict(), the fields of a Book.  `version` stands for the item fields,
\* the content hash and the crawl metadata together: "old" as an earlier run
\* stored them, "new" as this run fetched them.
BookDoc(url, version, snapshot_id) ==
    [url |-> url, version |-> version, html_snapshot_id |-> snapshot_id]

\* Mutant: $setOnInsert, a field the document has keeps its value.
SetFields_OnInsertOnly(old, new) ==
    [f \in DOMAIN old \cup DOMAIN new |-> IF f \in DOMAIN old THEN old[f] ELSE new[f]]
\* {"$set": new} applied to the document old: every field of new is written,
\* the other fields of old stay.
SetFields(old, new) ==
    [f \in DOMAIN old \cup DOMAIN new |-> IF f \in DOMAIN new THEN new[f] ELSE old[f]]

\* A stored document: the store gives it an _id when it inserts it.
StoredDoc(id, book_dict) == SetFields([_id |-> id], book_dict)

\* The documents an earlier run left for the addresses of S, by ascending address.
RECURSIVE EarlierBooks(_, _)
EarlierBooks(S, u) ==
    IF u > NumUrls THEN <<>>
    ELSE (IF u \in S
          THEN <<StoredDoc(Cardinality({v \in S : v <= u}), BookDoc(u, "old", "None"))>>
          ELSE <<>>) \o EarlierBooks(S, u + 1)

\* Mutant: the filter is {}, as in save_crawl_progress.
Matching_Any(coll, url) == DOMAIN coll
\* find({"url": url}): the positions of the matching documents.
Matching(coll, url) == {n \in DOMAIN coll : coll[n].url = url}

\* Mutant: the matched document is left alone and a new one is inserted.
UpdateMatched_Inserts(coll, doc) ==
    Append(coll, StoredDoc(Len(coll) + 1, doc))
\* update_one with a match: the first matching document takes the fields of doc.
UpdateMatched(coll, doc) ==
    LET n == CHOOSE m \in Matching(coll, doc.url) :
                  \A o \in Matching(coll, doc.url) : m <= o
    IN  [coll EXCEPT ![n] = SetFields(coll[n], doc)]

\* update_one with upsert=True and no match: a document with the fields of
\* the filter and of $set is inserted.
InsertDoc(coll, doc) == Append(coll, StoredDoc(Len(coll) + 1, doc))

\* Mutant: db.books has no unique index on url.
IndexRejects_NoIndex(coll, url) == FALSE
\* create_index("url", unique=True) (database.py 47): the insert of a second
\* document with the key is refused with a duplicate key error.
IndexRejects(coll, url) == \E n \in DOMAIN coll : coll[n].url = url

\* update_one({"url": book.url}, {"$set": book_dict}, upsert=True), applied in
\* one step.
UpdateOneUpsert(coll, doc) ==
    IF Matching(coll, doc.url) # {}
    THEN UpdateMatched(coll, doc)
    ELSE InsertDoc(coll, doc)

\* find_one({"url": url}): the first matching document, or none.
FindOne(coll, url) ==
    IF Matching(coll, url) = {} THEN <<>>
    ELSE <<coll[CHOOSE m \in Matching(coll, url) : \A o \in Matching(coll, url) : m <= o]>>

\* async for doc in db.db.books.find({}, {"url": 1}): existing_urls.add(doc["url"])
StoredUrls(coll) == {coll[n].url : n \in DOMAIN coll}

\* Mutant: every save adds a document.
SaveProgressDoc_Appends(coll, p) == Append(coll, p)
\* update_one({}, {"$set": progress_dict}, upsert=True) on db.crawl_progress:
\* the filter {} matches the first document of the collection, if any.
SaveProgressDoc(coll, p) ==
    IF coll # <<>> THEN [coll EXCEPT ![1] = p] ELSE <<p>>

\* db.crawl_progress.find_one(): the first document of the collection, if any.
FindOneProgress(coll) == IF coll # <<>> THEN <<coll[1]>> ELSE <<>>

\* ------------------------------------------------------------ scrape_book tasks
MakeTask(url) ==
    [url |-> url, pc |-> "created", retries |-> 0, wait_time |-> 0,
     html_snapshot_id |-> "unset", failed_stage |-> "none", counted |-> FALSE]

\* tasks = [self.scrape_book(client, url) for url in book_urls]
MakeTasks(urls) == [k \in 1..Len(urls) |-> MakeTask(urls[k])]

\* Mutant: the slice has no upper end, every remaining task is gathered at once.
Batch_Rest(ts, j) == {k \in DOMAIN ts : j < k}
\* batch = tasks[i:i + batch_size]
Batch(ts, j) == {k \in DOMAIN ts : j < k /\ k <= j + batch_size}

\* asyncio.gather(*batch) schedules every coroutine of the batch.
StartBatch(ts, j) ==
    [k \in DOMAIN ts |->
        IF k \in Batch(ts, j) THEN [ts[k] EXCEPT !.pc = "acquire"] ELSE ts[k]]

\* Mutant: a pipeline whose upsert was rejected awaits upsert_book again.
TaskFailed_UpsertAgain(t, stage) ==
    [t EXCEPT !.pc = IF stage = "upsert" THEN "upsert" ELSE "done",
              !.retries = 0, !.wait_time = 0,
              !.html_snapshot_id = IF stage = "upsert" THEN t.html_snapshot_id ELSE "unset",
              !.failed_stage = stage]
\* The pipeline k ended with its address recorded as failed at `stage`.
TaskFailed(t, stage) ==
    [t EXCEPT !.pc = "done", !.retries = 0, !.wait_time = 0,
              !.html_snapshot_id = "unset", !.failed_stage = stage]

\* ------------------------------------------------------------ the parts at rest
\* fetch_with_retry, upsert_book and generate_content_hash are also run on
\* their own below (SpecFetch, SpecStore, SpecHash); during a crawl the
\* variables of those runs keep these values.
NoFetchCall ==
    /\ responses = <<>>
    /\ attempts = 0
    /\ waits = <<>>
    /\ fetch_result = "pending"

NoUpsertCalls ==
    /\ calls = <<>>
    /\ books_before = <<>>

NoHashCall ==
    /\ book_data = <<>>
    /\ content_hash = <<>>

NoChangeCall ==
    /\ old_book = <<>>
    /\ new_book = <<>>
    /\ changes = <<>>
    /\ current_urls = {}
    /\ stored_urls = {}
    /\ new_urls = <<>>
    /\ returned = {}

\* get_crawl_progress has not been called.
NoGet == [called |-> FALSE, answered |-> FALSE, found |-> FALSE, progress |-> NoProgress]

NoProgressCall ==
    /\ saves = <<>>
    /\ save_calls = 0
    /\ got = NoGet

NoWalk ==
    /\ catalog = <<>>
    /\ visited = <<>>

NoRequest ==
    /\ request = <<>>
    /\ handler = "idle"
    /\ status_code = 0
    /\ body_ran = FALSE
    /\ db_queries = 0

NoJob ==
    /\ job = "idle"
    /\ summary = <<>>
    /\ change_log = <<>>
    /\ reports = 0
    /\ alerts = 0
    /\ alerts_enabled = FALSE

\* The variables of a crawl that a part run on its own does not use.
idle_vars == <<cpc, resume, sync_client, current_url, first_page_failed,
               pages_seen, page_links, failed_page, all_book_urls,
               existing_urls, book_urls, tasks, i, total_books,
               completed_books, failed_urls, progress, upserts_ok,
               crawl_progress, saved>>

\* No crawl is running: a BookScraper as __init__ leaves it.
NoCrawl ==
    /\ cpc = "idle"
    /\ resume = FALSE
    /\ sync_client = FALSE
    /\ current_url = 0
    /\ first_page_failed = FALSE
    /\ pages_seen = 0
    /\ page_links = <<>>
    /\ failed_page = 0
    /\ all_book_urls = <<>>
    /\ existing_urls = {}
    /\ book_urls = <<>>
    /\ tasks = <<>>
    /\ i = 0
    /\ total_books = 0
    /\ completed_books = 0
    /\ failed_urls = {}
    /\ progress = NoProgress
    /\ upserts_ok = 0
    /\ crawl_progress = <<>>
    /\ saved = 0

\* ------------------------------------------------------------ initial state
Init ==
    /\ NoJob
    /\ NoRequest
    /\ NoWalk
    /\ NoProgressCall
    /\ NoChangeCall
    /\ cpc = "connect"
    /\ resume \in BOOLEAN
    /\ semaphore = crawler_concurrency
    /\ dfetch = NoFetch
    /\ sync_client = FALSE
    /\ current_url = 0
    /\ first_page_failed = FALSE
    /\ pages_seen = 0
    /\ page_links = <<>>
    /\ failed_page = 0
    /\ all_book_urls = <<>>
    /\ existing_urls = {}
    /\ book_urls = <<>>
    /\ tasks = <<>>
    /\ i = 0
    /\ total_books = 0
    /\ completed_books = 0
    /\ failed_urls = {}
    /\ progress = NoProgress
    \* A fresh database, or what an earlier run left in it: the books of some
    \* addresses (the first n: the addresses are interchangeable) and its
    \* progress document.
    /\ \E n \in 0..NumUrls :
          /\ books = EarlierBooks(1..n, 1)
          /\ crawl_progress = IF n = 0 THEN <<>> ELSE <<EarlierProgress>>
    /\ upserts_ok = 0
    /\ saved = 0
    /\ NoFetchCall
    /\ NoUpsertCalls
    /\ NoHashCall

\* ------------------------------------------------------------ crawl_all_books
\* Lines 199-206 and 217-225: the tasks are created and the first batch is
\* gathered; with nothing to process the loop is skipped and the final
\* progress is built.
BeginProcessing(urls, total) ==
    /\ book_urls' = urls
    /\ i' = 0
    /\ IF Len(urls) > 0
       THEN /\ tasks' = StartBatch(MakeTasks(urls), 0)
            /\ cpc' = "gather"
            /\ UNCHANGED progress
       ELSE /\ tasks' = <<>>
            /\ cpc' = "final_save"
            /\ progress' = MakeProgress(total, completed_books, failed_urls)

\* Mutant: the total counts the distinct addresses only.
TotalBooks_Distinct(urls) == Cardinality({urls[n] : n \in DOMAIN urls})
\* self.total_books = len(book_urls)
TotalBooks(urls) == Len(urls)

\* Mutant: a listing page that cannot be fetched ends the run with an error.
EndDiscovery_Aborts(urls) ==
    /\ all_book_urls' = urls
    /\ dfetch' = NoFetch
    /\ total_books' = TotalBooks(urls)
    /\ cpc' = "raised"
    /\ UNCHANGED <<book_urls, tasks, i, progress>>
\* get_all_book_urls returns urls (lines 166-167); crawl_all_books lines 186-189.
EndDiscovery(urls) ==
    /\ all_book_urls' = urls
    /\ dfetch' = NoFetch
    /\ total_books' = TotalBooks(urls)
    /\ IF resume
       THEN /\ cpc' = "read_existing"
            /\ UNCHANGED <<book_urls, tasks, i, progress>>
       ELSE BeginProcessing(urls, TotalBooks(urls))

\* Mutant: the stored addresses are not subtracted.
NotExisting_Unfiltered(urls, existing) == urls
\* book_urls = [url for url in book_urls if url not in existing_urls]
NotExisting(urls, existing) ==
    LET keep(u) == u \notin existing IN SelectSeq(urls, keep)

\* await db.connect(): the connection is made, or connect raises and so does the run.
Connect ==
    /\ cpc = "connect"
    /\ \/ /\ cpc' = "discover"
          /\ current_url' = 1
          /\ dfetch' = NewFetch
       \/ /\ cpc' = "raised"
          /\ UNCHANGED <<current_url, dfetch>>
    /\ UNCHANGED <<resume, unit_vars, pages_seen, page_links, semaphore, sync_client, first_page_failed, failed_page, all_book_urls,
                   existing_urls, book_urls, tasks, i, total_books,
                   completed_books, failed_urls, progress, books, upserts_ok,
                   crawl_progress, saved>>

\* ------------------------------------------------------------ get_all_book_urls
\* extract_book_links: the addresses a listing page links to, found is the
\* number of links the pages before it listed.
PageLinks(found) ==
    {l \in BoundedSeq(Urls, MaxLinks) : found + Len(l) <= MaxBooks}

DiscoverAcquire ==
    /\ cpc = "discover"
    /\ dfetch.pc = "acquire"
    /\ CanAcquire(semaphore)
    /\ semaphore' = Acquired(semaphore)
    /\ dfetch' = fetch_enter(dfetch)
    /\ UNCHANGED <<cpc, resume, unit_vars, pages_seen, page_links, sync_client, current_url, first_page_failed, failed_page, all_book_urls,
                   existing_urls, book_urls, tasks, i, total_books,
                   completed_books, failed_urls, progress, books, upserts_ok,
                   crawl_progress, saved>>

\* The listing page arrives with content: its links are appended and the walk
\* goes on to the next page, or ends when the page has no next link.
DiscoverPageOk ==
    /\ cpc = "discover"
    /\ dfetch.pc = "get"
    /\ semaphore' = Released(semaphore)
    /\ \E links \in PageLinks(Len(all_book_urls)) :
       \E next \in (IF current_url < MaxPages THEN {current_url + 1} ELSE {}) \cup {0} :
          /\ current_url' = next
          /\ page_links' = Append(page_links, links)
          /\ IF next # 0
             THEN /\ all_book_urls' = all_book_urls \o links
                  /\ dfetch' = NewFetch
                  /\ UNCHANGED <<cpc, book_urls, tasks, i, total_books, progress>>
             ELSE EndDiscovery(all_book_urls \o links)
    /\ pages_seen' = pages_seen + 1
    /\ UNCHANGED <<resume, unit_vars, sync_client, first_page_failed, failed_page, existing_urls,
                   completed_books, failed_urls, books, upserts_ok,
                   crawl_progress, saved>>

\* `if not html: break` for a response with an empty body.
DiscoverPageEmpty ==
    /\ cpc = "discover"
    /\ dfetch.pc = "get"
    /\ semaphore' = Released(semaphore)
    /\ EndDiscovery(all_book_urls)
    /\ UNCHANGED <<resume, unit_vars, pages_seen, page_links, sync_client, current_url, first_page_failed, failed_page, existing_urls, completed_books,
                   failed_urls, books, upserts_ok, crawl_progress, saved>>

\* The request fails: fetch_with_retry sleeps and tries again, or returns None
\* and the walk stops (`if not html: break`).
DiscoverPageFails ==
    /\ cpc = "discover"
    /\ dfetch.pc = "get"
    /\ semaphore' = Released(semaphore)
    /\ IF fetch_except(dfetch).pc = "returned"
       THEN /\ first_page_failed' = (first_page_failed \/ current_url = 1)
            /\ failed_page' = current_url
            /\ EndDiscovery(all_book_urls)
       ELSE /\ dfetch' = fetch_except(dfetch)
            /\ UNCHANGED <<cpc, first_page_failed, failed_page, all_book_urls, book_urls, tasks,
                        i, total_books, progress>>
    /\ UNCHANGED <<resume, unit_vars, pages_seen, page_links, sync_client, current_url, existing_urls, completed_books,
                   failed_urls, books, upserts_ok, crawl_progress, saved>>

DiscoverRetry ==
    /\ cpc = "discover"
    /\ dfetch.pc = "sleep"
    /\ dfetch' = fetch_again(dfetch)
    /\ UNCHANGED <<cpc, resume, unit_vars, pages_seen, page_links, sync_client, semaphore, current_url, first_page_failed, failed_page,
                   all_book_urls, existing_urls, book_urls, tasks, i,
                   total_books, completed_books, failed_urls, progress, books,
                   upserts_ok, crawl_progress, saved>>

\* Lines 189-197: the stored keys are read and subtracted; the read can raise.
ReadExisting ==
    /\ cpc = "read_existing"
    /\ \/ /\ existing_urls' = StoredUrls(books)
          /\ BeginProcessing(NotExisting(all_book_urls, existing_urls'), total_books)
       \/ /\ cpc' = "raised"
          /\ UNCHANGED <<existing_urls, book_urls, tasks, i, progress>>
    /\ UNCHANGED <<resume, unit_vars, pages_seen, page_links, sync_client, semaphore, dfetch, current_url, first_page_failed, failed_page,
                   all_book_urls, total_books, completed_books, failed_urls,
                   books, upserts_ok, crawl_progress, saved>>

\* ------------------------------------------------------------ scrape_book
\* Mutant: the set is written back from a copy read before the other
\* pipelines added to it.
FailedAdd_Overwrites(failed, url) == {url}
\* Mutant: the failed address is not recorded.
FailedAdd_Lost(failed, url) == failed
\* self.failed_urls.add(book_url)
FailedAdd(failed, url) == failed \cup {url}
\* Mutant: the book is counted when its upsert is sent and again when it returns.
Completed_Twice(n) == n + 2
\* Mutant: the increment is lost.
Completed_Lost(n) == n
\* self.completed_books += 1
Completed(n) == n + 1

\* Mutant: scrape_book has no handler and the exception reaches gather.
scrape_book_no_except(k) ==
    /\ cpc' = "raised"
    /\ UNCHANGED failed_urls
\* Lines 131-134: an exception raised anywhere in the pipeline is caught, the
\* address is recorded as failed and nothing reaches the caller.
scrape_book_except(k) ==
    /\ failed_urls' = FailedAdd(failed_urls, tasks[k].url)
    /\ UNCHANGED cpc

\* The task enters fetch_with_retry and takes a permit (lines 51-52).
TaskAcquire(k) ==
    /\ cpc = "gather"
    /\ tasks[k].pc = "acquire"
    /\ CanAcquire(semaphore)
    /\ semaphore' = Acquired(semaphore)
    /\ tasks' = [tasks EXCEPT ![k] = fetch_enter(tasks[k])]
    /\ UNCHANGED <<cpc, resume, unit_vars, pages_seen, page_links, sync_client, dfetch, current_url, first_page_failed, failed_page,
                   all_book_urls, existing_urls, book_urls, i, total_books,
                   completed_books, failed_urls, progress, books, upserts_ok,
                   crawl_progress, saved>>

\* The request fails: back off and retry, or fetch_with_retry returns None and
\* scrape_book records the address (lines 88-90).
TaskFetchFails(k) ==
    /\ cpc = "gather"
    /\ tasks[k].pc = "get"
    /\ semaphore' = Released(semaphore)
    /\ LET f == fetch_except(tasks[k]) IN
       IF f.pc = "returned"
       THEN /\ tasks' = [tasks EXCEPT ![k] = TaskFailed(f, "fetch")]
            /\ failed_urls' = FailedAdd(failed_urls, tasks[k].url)
       ELSE /\ tasks' = [tasks EXCEPT ![k] = f]
            /\ UNCHANGED failed_urls
    /\ UNCHANGED <<cpc, resume, unit_vars, pages_seen, page_links, sync_client, dfetch, current_url, first_page_failed, failed_page,
                   all_book_urls, existing_urls, book_urls, i, total_books,
                   completed_books, progress, books, upserts_ok,
                   crawl_progress, saved>>

TaskRetry(k) ==
    /\ cpc = "gather"
    /\ tasks[k].pc = "sleep"
    /\ tasks' = [tasks EXCEPT ![k] = fetch_again(tasks[k])]
    /\ UNCHANGED <<cpc, resume, unit_vars, pages_seen, page_links, sync_client, semaphore, dfetch, current_url,
                   first_page_failed, failed_page, all_book_urls, existing_urls, book_urls,
                   i, total_books, completed_books, failed_urls, progress,
                   books, upserts_ok, crawl_progress, saved>>

\* The response has an empty body: `if not html` (lines 88-90).
TaskFetchEmpty(k) ==
    /\ cpc = "gather"
    /\ tasks[k].pc = "get"
    /\ semaphore' = Released(semaphore)
    /\ tasks' = [tasks EXCEPT ![k] = TaskFailed(tasks[k], "fetch")]
    /\ failed_urls' = FailedAdd(failed_urls, tasks[k].url)
    /\ UNCHANGED <<cpc, resume, unit_vars, pages_seen, page_links, sync_client, dfetch, current_url, first_page_failed, failed_page,
                   all_book_urls, existing_urls, book_urls, i, total_books,
                   completed_books, progress, books, upserts_ok,
                   crawl_progress, saved>>

\* The page arrives and parse_book_details returns None (lines 93-99).
TaskParseFails(k) ==
    /\ cpc = "gather"
    /\ tasks[k].pc = "get"
    /\ semaphore' = Released(semaphore)
    /\ tasks' = [tasks EXCEPT ![k] = TaskFailed(tasks[k], "extract")]
    /\ failed_urls' = FailedAdd(failed_urls, tasks[k].url)
    /\ UNCHANGED <<cpc, resume, unit_vars, pages_seen, page_links, sync_client, dfetch, current_url, first_page_failed, failed_page,
                   all_book_urls, existing_urls, book_urls, i, total_books,
                   completed_books, progress, books, upserts_ok,
                   crawl_progress, saved>>

\* What store_html_snapshot can return (storage.py 20-24 and 61-79): None when
\* GridFS is not initialised, which _init_gridfs does only once db.sync_client
\* is set; else the file id, or None when the write raises.
SnapshotIds == IF sync_client THEN {"id", "None"} ELSE {"None"}

\* The page parses, the snapshot is stored or not, and Book(**book_data)
\* raises a validation error (lines 101-116), caught at line 131.
TaskValidationRaises(k) ==
    /\ cpc = "gather"
    /\ tasks[k].pc = "get"
    /\ semaphore' = Released(semaphore)
    /\ tasks' = [tasks EXCEPT ![k] = TaskFailed(tasks[k], "validate")]
    /\ scrape_book_except(k)
    /\ UNCHANGED <<resume, unit_vars, pages_seen, page_links, sync_client, dfetch, current_url, first_page_failed, failed_page,
                   all_book_urls, existing_urls, book_urls, i, total_books,
                   completed_books, progress, books, upserts_ok,
                   crawl_progress, saved>>

\* The page parses, the snapshot is stored or not, the Book is valid and
\* upsert_book is awaited (lines 101-119).
TaskUpsertStart(k) ==
    /\ cpc = "gather"
    /\ tasks[k].pc = "get"
    /\ semaphore' = Released(semaphore)
    /\ \E sid \in SnapshotIds :
          tasks' = [tasks EXCEPT ![k] =
                       [tasks[k] EXCEPT !.pc = "upsert", !.retries = 0, !.wait_time = 0,
                                        !.html_snapshot_id = sid]]
    /\ UNCHANGED <<cpc, resume, unit_vars, pages_seen, page_links, sync_client, dfetch, current_url, first_page_failed, failed_page,
                   all_book_urls, existing_urls, book_urls, i, total_books,
                   completed_books, failed_urls, progress, books, upserts_ok,
                   crawl_progress, saved>>

\* The store applies the update_one of upsert_book (storage.py 100-104); the
\* coroutine is resumed with the result in a later step of the event loop.
StoreApplies(k) ==
    /\ cpc = "gather"
    /\ tasks[k].pc = "upsert"
    /\ books' = UpdateOneUpsert(books,
                    BookDoc(tasks[k].url, "new", tasks[k].html_snapshot_id))
    /\ upserts_ok' = upserts_ok + 1
    /\ tasks' = [tasks EXCEPT ![k] = [tasks[k] EXCEPT !.pc = "upserted"]]
    /\ UNCHANGED <<cpc, resume, unit_vars, pages_seen, page_links, sync_client, semaphore, dfetch,
                   current_url, first_page_failed, failed_page, all_book_urls, existing_urls,
                   book_urls, i, total_books, completed_books, failed_urls,
                   progress, crawl_progress, saved>>

\* upsert_book returns True (storage.py 106-111) and the pipeline counts the
\* book (scraper.py 120-129).
TaskUpsertOk(k) ==
    /\ cpc = "gather"
    /\ tasks[k].pc = "upserted"
    /\ completed_books' = Completed(completed_books)
    /\ tasks' = [tasks EXCEPT ![k] = [tasks[k] EXCEPT !.pc = "done", !.counted = TRUE]]
    /\ UNCHANGED <<cpc, resume, unit_vars, pages_seen, page_links, sync_client, semaphore, dfetch,
                   current_url, first_page_failed, failed_page, all_book_urls, existing_urls,
                   book_urls, i, total_books, failed_urls, progress, books,
                   upserts_ok, crawl_progress, saved>>

\* Mutant: the book is counted before the result of upsert_book is tested.
TaskUpsertFails_Counted(k) ==
    /\ cpc = "gather"
    /\ tasks[k].pc = "upsert"
    /\ completed_books' = Completed(completed_books)
    /\ tasks' = [tasks EXCEPT ![k] = [TaskFailed(tasks[k], "upsert") EXCEPT !.counted = TRUE]]
    /\ failed_urls' = FailedAdd(failed_urls, tasks[k].url)
    /\ UNCHANGED <<cpc, resume, unit_vars, pages_seen, page_links, sync_client, semaphore, dfetch, current_url,
                   first_page_failed, failed_page, all_book_urls, existing_urls, book_urls,
                   i, total_books, progress, books,
                   upserts_ok, crawl_progress, saved>>
\* The store rejects the upsert: upsert_book returns False (storage.py 113-115)
\* and the pipeline records the address (scraper.py 126-127).
TaskUpsertFails(k) ==
    /\ cpc = "gather"
    /\ tasks[k].pc = "upsert"
    /\ tasks' = [tasks EXCEPT ![k] = TaskFailed(tasks[k], "upsert")]
    /\ failed_urls' = FailedAdd(failed_urls, tasks[k].url)
    /\ UNCHANGED <<cpc, resume, unit_vars, pages_seen, page_links, sync_client, semaphore, dfetch, current_url,
                   first_page_failed, failed_page, all_book_urls, existing_urls, book_urls,
                   i, total_books, completed_books, progress, books,
                   upserts_ok, crawl_progress, saved>>

\* ------------------------------------------------------------ the batch loop
\* asyncio.gather returns once every task of the batch has ended; the
\* CrawlProgress of lines 209-214 is built and save_crawl_progress awaited.
GatherDone ==
    /\ cpc = "gather"
    /\ \A k \in Batch(tasks, i) : tasks[k].pc = "done"
    /\ progress' = MakeProgress(total_books, completed_books, failed_urls)
    /\ cpc' = "save"
    /\ UNCHANGED <<resume, unit_vars, pages_seen, page_links, sync_client, semaphore, dfetch, current_url, first_page_failed, failed_page,
                   all_book_urls, existing_urls, book_urls, tasks, i,
                   total_books, completed_books, failed_urls, books,
                   upserts_ok, crawl_progress, saved>>

\* save_crawl_progress (storage.py 143-158): the document is written, or the
\* write raises and False is returned; the caller ignores the result.
SaveWrites(p) ==
    \/ /\ crawl_progress' = SaveProgressDoc(crawl_progress, p)
       /\ saved' = saved + 1
    \/ UNCHANGED <<crawl_progress, saved>>

\* The batch's save is over: the next batch is gathered, or the loop ends and
\* the final progress of lines 218-224 is built.
SaveProgress ==
    /\ cpc = "save"
    /\ SaveWrites(progress)
    /\ i' = i + batch_size
    /\ IF i' < Len(book_urls)
       THEN /\ tasks' = StartBatch(tasks, i')
            /\ cpc' = "gather"
            /\ UNCHANGED progress
       ELSE /\ cpc' = "final_save"
            /\ progress' = MakeProgress(total_books, completed_books, failed_urls)
            /\ UNCHANGED tasks
    /\ UNCHANGED <<resume, unit_vars, pages_seen, page_links, sync_client, semaphore, dfetch, current_url, first_page_failed, failed_page,
                   all_book_urls, existing_urls, book_urls, total_books,
                   completed_books, failed_urls, books, upserts_ok>>

\* Mutant: a failed final save is raised to the caller of crawl_all_books.
FinalSave_Reraises ==
    /\ cpc = "final_save"
    /\ \/ /\ crawl_progress' = SaveProgressDoc(crawl_progress, progress)
          /\ saved' = saved + 1
          /\ cpc' = "returned"
       \/ /\ UNCHANGED <<crawl_progress, saved>>
          /\ cpc' = "raised"
    /\ UNCHANGED <<resume, unit_vars, pages_seen, page_links, sync_client, semaphore, dfetch, current_url, first_page_failed, failed_page,
                   all_book_urls, existing_urls, book_urls, tasks, i,
                   total_books, completed_books, failed_urls, progress, books,
                   upserts_ok>>
\* Line 225 and 232: the final save, then crawl_all_books returns progress.
FinalSave ==
    /\ cpc = "final_save"
    /\ SaveWrites(progress)
    /\ cpc' = "returned"
    /\ UNCHANGED <<resume, unit_vars, pages_seen, page_links, sync_client, semaphore, dfetch, current_url, first_page_failed, failed_page,
                   all_book_urls, existing_urls, book_urls, tasks, i,
                   total_books, completed_books, failed_urls, progress, books,
                   upserts_ok>>

\* ------------------------------------------------------------ the run
Next ==
    \/ Connect
    \/ DiscoverAcquire
    \/ DiscoverPageOk
    \/ DiscoverPageEmpty
    \/ DiscoverPageFails
    \/ DiscoverRetry
    \/ ReadExisting
    \/ \E k \in DOMAIN tasks : TaskAcquire(k)
    \/ \E k \in DOMAIN tasks : TaskFetchFails(k)
    \/ \E k \in DOMAIN tasks : TaskRetry(k)
    \/ \E k \in DOMAIN tasks : TaskFetchEmpty(k)
    \/ \E k \in DOMAIN tasks : TaskParseFails(k)
    \/ \E k \in DOMAIN tasks : TaskValidationRaises(k)
    \/ \E k \in DOMAIN tasks : TaskUpsertStart(k)
    \/ \E k \in DOMAIN tasks : StoreApplies(k)
    \/ \E k \in DOMAIN tasks : TaskUpsertOk(k)
    \/ \E k \in DOMAIN tasks : TaskUpsertFails(k)
    \/ GatherDone
    \/ SaveProgress
    \/ FinalSave

Spec == Init /\ [][Next]_vars

\* ------------------------------------------------------------ a cancelled run
\* The code has no cancellation of its own (no flag, no handler, no finally):
\* a run is cancelled the asyncio way, by cancelling the task of
\* asyncio.run(run_crawler(...)) (main.py 31), which is what an interrupt of
\* the process does.  CancelledError is raised at the await the run is
\* suspended in; during item processing that is `await asyncio.gather(*batch)`
\* (scraper.py 206).

\* gather cancels each of its children that has not ended: CancelledError is
\* raised at the await the child is suspended in (client.get, asyncio.sleep,
\* the semaphore, upsert_book).  It is a BaseException: `except Exception`
\* (line 131) does not catch it and failed_urls is left alone.
CancelledTask(t) ==
    IF t.pc \in {"created", "done"}
    THEN t
    ELSE [t EXCEPT !.pc = "cancelled", !.retries = 0, !.wait_time = 0]

\* The permits the cancelled requests give back on leaving `async with`.
PermitsHeld(ts) == Cardinality({k \in DOMAIN ts : ts[k].pc = "get"})

\* The run is cancelled while a batch is being gathered: the children are
\* cancelled, the exception leaves crawl_all_books and run_crawler through
\* `async with httpx.AsyncClient` without passing lines 209-225: nothing is
\* saved.
Cancel ==
    /\ cpc = "gather"
    /\ tasks' = [k \in DOMAIN tasks |-> CancelledTask(tasks[k])]
    /\ semaphore' = semaphore + PermitsHeld(tasks) - PermitsHeld(tasks')
    /\ cpc' = "cancelled"
    /\ UNCHANGED <<resume, unit_vars, pages_seen, page_links, sync_client, dfetch, current_url,
                   first_page_failed, failed_page, all_book_urls, existing_urls, book_urls,
                   i, total_books, completed_books, failed_urls, progress, books,
                   upserts_ok, crawl_progress, saved>>

NextCancel == Next \/ Cancel

SpecCancel == Init /\ [][NextCancel]_vars

\* main.py: `asyncio.run(run_crawler(...))` ends the process with status 0 when
\* the run returns, with a traceback and status 1 when it raises, and by the
\* interrupt signal (status 130) when it is interrupted.
ExitStatus == IF cpc = "raised" THEN 1 ELSE IF cpc = "cancelled" THEN 130 ELSE 0

\* ------------------------------------------------- fetch_with_retry on its own
\* One call fetch_with_retry(client, url) with the permits free, against a
\* server whose answers to the successive requests are given by `responses`.
\* What one `await client.get(...)` / raise_for_status / response.text does:
\*   "text"             a 2xx response, its body is returned
\*   "HTTPError"        a network error or a 4xx/5xx status (httpx.HTTPError)
\*   "TimeoutException" the request timed out (httpx.TimeoutException)
\*   "Exception"        any error the except clause of line 56 does not name
Outcomes == {"text", "HTTPError", "TimeoutException", "Exception"}
\* except (httpx.HTTPError, httpx.TimeoutException)
Retryable == {"HTTPError", "TimeoutException"}

\* The answer to the n-th request; past the end of the list the server goes
\* on answering as it last did.
ResponseTo(n) == responses[IF n <= Len(responses) THEN n ELSE Len(responses)]

InitFetch ==
    /\ NoJob
    /\ NoRequest
    /\ NoWalk
    /\ NoProgressCall
    /\ NoChangeCall
    /\ NoCrawl
    /\ books = <<>>
    /\ NoUpsertCalls
    /\ NoHashCall
    /\ semaphore = crawler_concurrency
    /\ dfetch = NewFetch
    /\ responses \in [1..(max_retries + 1) -> Outcomes]
    /\ attempts = 0
    /\ waits = <<>>
    /\ fetch_result = "pending"

\* Lines 51-52: the permit is taken and the request is sent.
FetchGet ==
    /\ dfetch.pc = "acquire"
    /\ CanAcquire(semaphore)
    /\ semaphore' = Acquired(semaphore)
    /\ dfetch' = fetch_enter(dfetch)
    /\ attempts' = attempts + 1
    /\ UNCHANGED <<idle_vars, job_vars, api_vars, walk_vars, slot_vars, change_vars, books, store_vars, hash_vars, responses, waits,
                   fetch_result>>

\* Lines 53-54: `return response.text`.
FetchReturnsText ==
    /\ dfetch.pc = "get"
    /\ ResponseTo(attempts) = "text"
    /\ semaphore' = Released(semaphore)
    /\ dfetch' = [dfetch EXCEPT !.pc = "returned"]
    /\ fetch_result' = "text"
    /\ UNCHANGED <<idle_vars, job_vars, api_vars, walk_vars, slot_vars, change_vars, books, store_vars, hash_vars, responses, attempts,
                   waits>>

\* Lines 56-68: the error is caught; the call sleeps wait_time and calls
\* itself, or returns None.
FetchExcept ==
    /\ dfetch.pc = "get"
    /\ ResponseTo(attempts) \in Retryable
    /\ semaphore' = Released(semaphore)
    /\ dfetch' = fetch_except(dfetch)
    /\ IF dfetch'.pc = "sleep"
       THEN /\ waits' = Append(waits, dfetch'.wait_time)
            /\ UNCHANGED fetch_result
       ELSE /\ fetch_result' = "None"
            /\ UNCHANGED waits
    /\ UNCHANGED <<idle_vars, job_vars, api_vars, walk_vars, slot_vars, change_vars, books, store_vars, hash_vars, responses, attempts>>

\* An error the except clause does not name leaves fetch_with_retry.
FetchRaises ==
    /\ dfetch.pc = "get"
    /\ ResponseTo(attempts) = "Exception"
    /\ semaphore' = Released(semaphore)
    /\ dfetch' = [dfetch EXCEPT !.pc = "raised"]
    /\ fetch_result' = "raised"
    /\ UNCHANGED <<idle_vars, job_vars, api_vars, walk_vars, slot_vars, change_vars, books, store_vars, hash_vars, responses, attempts,
                   waits>>

\* Line 65: the sleep is over, fetch_with_retry(client, url, retries + 1).
FetchAgain ==
    /\ dfetch.pc = "sleep"
    /\ dfetch' = fetch_again(dfetch)
    /\ UNCHANGED <<idle_vars, job_vars, api_vars, walk_vars, slot_vars, change_vars, books, store_vars, hash_vars, semaphore, responses,
                   attempts, waits, fetch_result>>

NextFetch ==
    \/ FetchGet
    \/ FetchReturnsText
    \/ FetchExcept
    \/ FetchRaises
    \/ FetchAgain

SpecFetch == InitFetch /\ [][NextFetch]_vars

\* The event loop runs every coroutine that is ready: a request is answered
\* or times out (timeout=self.timeout) and a sleep ends.
FairSpecFetch == SpecFetch /\ WF_vars(NextFetch)

\* ------------------------------------------------------ upsert_book on its own
\* Up to MaxCalls calls upsert_book(book) awaited together against db.books
\* holding any documents, one per key at most (the unique index, created by
\* db.connect before anything is stored).  The store serves an update_one
\* with upsert=True in steps: it looks for a match and updates it; without a
\* match it inserts, and the unique index refuses the insert if a document
\* with the key has arrived in between.
\* The books passed to upsert_book and those stored before: of each address
\* an older version with a snapshot and a newer one without.
BookDicts ==
    {BookDoc(u, "old", "id") : u \in Urls} \cup {BookDoc(u, "new", "None") : u \in Urls}
\* The calls are interchangeable: they are numbered by address, then version.
CallOrder(book_dict) == 2 * book_dict.url + (IF book_dict.version = "new" THEN 1 ELSE 0)

\* What db.books can hold: at most one document per key, by ascending key,
\* the _id of each its position.
Stores ==
    {st \in BoundedSeq({StoredDoc(n, d) : n \in 1..NumUrls, d \in BookDicts}, NumUrls) :
        /\ \A n \in DOMAIN st : st[n]._id = n
        /\ \A m, n \in DOMAIN st : m < n => st[m].url < st[n].url}

\* A call upsert_book(book): book.dict() and where the call is.
\*   "called"  update_one is awaited, the store has not served it yet
\*   "insert"  the store found no match and is about to insert
\*   "True" / "False"  what upsert_book returned
UpsertCall(book_dict) == [book |-> book_dict, pc |-> "called"]

InitStore ==
    /\ NoJob
    /\ NoRequest
    /\ NoWalk
    /\ NoProgressCall
    /\ NoChangeCall
    /\ NoCrawl
    /\ semaphore = crawler_concurrency
    /\ dfetch = NoFetch
    /\ NoFetchCall
    /\ NoHashCall
    /\ books \in Stores
    /\ books_before = books
    /\ \E n \in 1..MaxCalls :
          /\ calls \in [1..n -> {UpsertCall(d) : d \in BookDicts}]
          /\ \A c, d \in 1..n : c < d => CallOrder(calls[c].book) <= CallOrder(calls[d].book)

\* The store finds the document of the key and updates it (storage.py 100-111).
upsert_book_updates(c) ==
    /\ calls[c].pc = "called"
    /\ Matching(books, calls[c].book.url) # {}
    /\ books' = UpdateMatched(books, calls[c].book)
    /\ calls' = [calls EXCEPT ![c].pc = "True"]
    /\ UNCHANGED <<idle_vars, job_vars, api_vars, walk_vars, slot_vars, change_vars, semaphore, dfetch, fetch_vars, hash_vars, books_before>>

\* The store finds no document of the key: it will insert one.
upsert_book_no_match(c) ==
    /\ calls[c].pc = "called"
    /\ Matching(books, calls[c].book.url) = {}
    /\ calls' = [calls EXCEPT ![c].pc = "insert"]
    /\ UNCHANGED <<idle_vars, job_vars, api_vars, walk_vars, slot_vars, change_vars, semaphore, dfetch, fetch_vars, hash_vars, books,
                   books_before>>

\* The insert is accepted (storage.py 100-111).
upsert_book_inserts(c) ==
    /\ calls[c].pc = "insert"
    /\ ~IndexRejects(books, calls[c].book.url)
    /\ books' = InsertDoc(books, calls[c].book)
    /\ calls' = [calls EXCEPT ![c].pc = "True"]
    /\ UNCHANGED <<idle_vars, job_vars, api_vars, walk_vars, slot_vars, change_vars, semaphore, dfetch, fetch_vars, hash_vars, books_before>>

\* The unique index refuses the insert: the store serves the operation again,
\* or update_one raises DuplicateKeyError and upsert_book returns False
\* (storage.py 113-115).
upsert_book_duplicate_key(c) ==
    /\ calls[c].pc = "insert"
    /\ IndexRejects(books, calls[c].book.url)
    /\ \E pc \in {"called", "False"} : calls' = [calls EXCEPT ![c].pc = pc]
    /\ UNCHANGED <<idle_vars, job_vars, api_vars, walk_vars, slot_vars, change_vars, semaphore, dfetch, fetch_vars, hash_vars, books,
                   books_before>>

\* update_one raises before the store has written: upsert_book returns False
\* (storage.py 113-115).
upsert_book_raises(c) ==
    /\ calls[c].pc \in {"called", "insert"}
    /\ calls' = [calls EXCEPT ![c].pc = "False"]
    /\ UNCHANGED <<idle_vars, job_vars, api_vars, walk_vars, slot_vars, change_vars, semaphore, dfetch, fetch_vars, hash_vars, books,
                   books_before>>

NextStore ==
    \/ \E c \in DOMAIN calls : upsert_book_updates(c)
    \/ \E c \in DOMAIN calls : upsert_book_no_match(c)
    \/ \E c \in DOMAIN calls : upsert_book_inserts(c)
    \/ \E c \in DOMAIN calls : upsert_book_duplicate_key(c)
    \/ \E c \in DOMAIN calls : upsert_book_raises(c)

SpecStore == InitStore /\ [][NextStore]_vars

\* -------------------------------------------- generate_content_hash on its own
\* A Python value: its type and its repr.
PyNone == [type |-> "NoneType", repr |-> "None"]
PyStr(text) == [type |-> "str", repr |-> text]
PyFloat(text) == [type |-> "float", repr |-> text]
PyInt(text) == [type |-> "int", repr |-> text]

\* A dictionary is the list of its (key, value) pairs in insertion order.
\* book_data.get(key): the value of the key, None when the key is absent.
Get(d, key) ==
    IF \E n \in DOMAIN d : d[n][1] = key
    THEN d[CHOOSE n \in DOMAIN d : d[n][1] = key][2]
    ELSE PyNone

\* Lines 38-44: the dictionary of the five fields, in the order written.
RelevantKeys == <<"name", "price_incl_tax", "price_excl_tax", "availability", "description">>
\* Mutant: every field of the record is hashed.
RelevantFields_EveryField(d) == d
RelevantFields(d) == [n \in DOMAIN RelevantKeys |-> <<RelevantKeys[n], Get(d, RelevantKeys[n])>>]

\* The keys used here in the order sort_keys=True puts them.
SortedKeys ==
    <<"availability", "description", "name", "num_reviews", "price_excl_tax", "price_incl_tax">>
KeyRank(key) == CHOOSE n \in DOMAIN SortedKeys : SortedKeys[n] = key
\* The pairs of d by ascending key.
SortKeys(d) ==
    [n \in DOMAIN d |->
        d[CHOOSE m \in DOMAIN d :
              Cardinality({o \in DOMAIN d : KeyRank(d[o][1]) < KeyRank(d[m][1])}) = n - 1]]

\* Mutant: a string is written without its quotes.
JsonValue_Unquoted(v) == IF v.type = "NoneType" THEN <<"null">> ELSE <<v.repr>>
\* json.dumps of a value: null, a quoted string, or the repr of a number.
JsonValue(v) ==
    IF v.type = "NoneType" THEN <<"null">>
    ELSE IF v.type = "str" THEN <<"\"", v.repr, "\"">>
    ELSE <<v.repr>>

\* json.dumps(d, sort_keys=True), as the list of the pieces of its text.
JsonDumps(d) ==
    LET sorted == SortKeys(d)
    IN  <<"{">> \o Concat([n \in DOMAIN sorted |->
                              <<"\"", sorted[n][1], "\"", ":">>
                                  \o JsonValue(sorted[n][2]) \o <<",">>])
              \o <<"}">>

\* hashlib.sha256(text).hexdigest(), taken as free of collisions: the digest
\* determines the text.
Sha256Hex(text) == <<"sha256">> \o text

generate_content_hash(d) == Sha256Hex(JsonDumps(RelevantFields(d)))

\* The orders in which the keys of a record are inserted: that of
\* parse_book_details, and another with every key elsewhere.
KeyOrders ==
    {<<"name", "description", "price_excl_tax", "price_incl_tax", "availability", "num_reviews">>,
     <<"num_reviews", "availability", "price_incl_tax", "price_excl_tax", "description", "name">>}

\* A value that stands for a key left out of the dictionary.
Absent == [type |-> "absent", repr |-> ""]

\* The dictionary with the keys in the order o and the values of the function
\* f, the keys of value Absent left out.
MakeDict(o, f) ==
    LET present(pair) == pair[2] # Absent
    IN  SelectSeq([n \in DOMAIN o |-> <<o[n], f[o[n]]>>], present)

\* The records passed to generate_content_hash: the fields as
\* parse_book_details types them (a name, float prices of which the one
\* without tax can be None, an availability, an optional description, a
\* review count), the description possibly left out.
BookData ==
    {MakeDict(o, [name |-> na, price_incl_tax |-> pi, price_excl_tax |-> pe,
                  availability |-> av, description |-> de, num_reviews |-> nr]) :
        o \in KeyOrders,
        na \in {PyStr("Test Book"), PyStr("10.99")},
        pi \in {PyFloat("10.99"), PyFloat("12.99")},
        pe \in {PyFloat("9.99"), PyNone},
        av \in {PyStr("In stock"), PyStr("None")},
        de \in {PyStr("null"), PyNone, Absent},
        nr \in {PyInt("0"), PyInt("1")}}

InitHash ==
    /\ NoJob
    /\ NoRequest
    /\ NoWalk
    /\ NoProgressCall
    /\ NoChangeCall
    /\ NoCrawl
    /\ semaphore = crawler_concurrency
    /\ dfetch = NoFetch
    /\ books = <<>>
    /\ NoFetchCall
    /\ NoUpsertCalls
    /\ book_data \in BookData \X BookData
    /\ content_hash = << <<>>, <<>> >>

\* generate_content_hash(book_data[n]) is called.
HashCall(n) ==
    /\ content_hash[n] = <<>>
    /\ content_hash' = [content_hash EXCEPT ![n] = generate_content_hash(book_data[n])]
    /\ UNCHANGED <<idle_vars, job_vars, api_vars, walk_vars, slot_vars, change_vars, semaphore, dfetch, books, fetch_vars, store_vars, book_data>>

NextHash == \E n \in DOMAIN book_data : HashCall(n)

SpecHash == InitHash /\ [][NextHash]_vars

\* ------------------------------------- the change detector on its own
\* change_detector.py: detect_changes(old_book, new_book) and
\* detect_new_books(current_urls, stored_urls), each called once on inputs
\* drawn at the start.  Records are dictionaries as above.

\* d.get(key, default)
GetOr(d, key, default) ==
    IF \E n \in DOMAIN d : d[n][1] = key
    THEN d[CHOOSE n \in DOMAIN d : d[n][1] = key][2]
    ELSE default

\* ChangeLog(book_id=..., book_name=..., change_type=..., old_value=..., new_value=...)
ChangeLog(book_id, book_name, change_type, old_value, new_value) ==
    [book_id |-> book_id, book_name |-> book_name, change_type |-> change_type,
     old_value |-> old_value, new_value |-> new_value]

\* The dictionary {key: d.get(key) for key in keys}, in the order written.
Fields(d, keys) == [n \in DOMAIN keys |-> <<keys[n], Get(d, keys[n])>>]

\* Mutant: the two prices are compared as a pair.
PriceDiffers_Pair(old, new) ==
    Fields(old, <<"price_incl_tax", "price_excl_tax">>)
        # Fields(new, <<"price_incl_tax", "price_excl_tax">>)
\* Line 38: old_book.get("price_incl_tax") != new_book.get("price_incl_tax")
PriceDiffers(old, new) == Get(old, "price_incl_tax") # Get(new, "price_incl_tax")

\* Lines 33-73.
detect_changes(old, new) ==
    LET book_id == GetOr(old, "_id", PyStr("")).repr
        book_name == GetOr(new, "name", PyStr("Unknown")).repr
        price ==
            IF PriceDiffers(old, new)
            THEN <<ChangeLog(book_id, book_name, "price_change",
                             Fields(old, <<"price_incl_tax", "price_excl_tax">>),
                             Fields(new, <<"price_incl_tax", "price_excl_tax">>))>>
            ELSE <<>>
        availability ==
            IF Get(old, "availability") # Get(new, "availability")
            THEN <<ChangeLog(book_id, book_name, "availability_change",
                             Fields(old, <<"availability">>),
                             Fields(new, <<"availability">>))>>
            ELSE <<>>
        description ==
            IF Get(old, "description") # Get(new, "description")
            THEN <<ChangeLog(book_id, book_name, "description_change",
                             Fields(old, <<"description">>),
                             Fields(new, <<"description">>))>>
            ELSE <<>>
    IN  price \o availability \o description

\* Mutant: the stored keys are not subtracted.
NewUrls_Current(current, stored) == current
\* Line 86: new_urls = current_urls - stored_urls
NewUrls(current, stored) == current \ stored

\* Line 87: list(new_urls), the elements of the set once each in the order
\* the set iterates, which is any order.
ListOf(S) ==
    {q \in [1..Cardinality(S) -> S] : \A m, n \in DOMAIN q : m # n => q[m] # q[n]}

\* The stored record of a book (with its _id) and the record of the same book
\* freshly crawled (without): the prices, the availability, and a description
\* that is a text, None or left out.
ChangeKeys == <<"_id", "name", "price_incl_tax", "price_excl_tax", "availability", "description">>

BookVersions(id) ==
    {MakeDict(ChangeKeys,
              [_id |-> id, name |-> PyStr("Test Book"), price_incl_tax |-> pi,
               price_excl_tax |-> pe, availability |-> av, description |-> de]) :
        pi \in {PyFloat("10.99"), PyFloat("12.99")},
        pe \in {PyFloat("9.99"), PyFloat("11.99")},
        av \in {PyStr("In stock"), PyStr("Out of stock")},
        de \in {PyStr("Test"), PyNone, Absent}}

InitChanges ==
    /\ NoJob
    /\ NoRequest
    /\ NoWalk
    /\ NoProgressCall
    /\ NoCrawl
    /\ semaphore = crawler_concurrency
    /\ dfetch = NoFetch
    /\ books = <<>>
    /\ NoFetchCall
    /\ NoUpsertCalls
    /\ NoHashCall
    /\ old_book \in BookVersions(PyStr("123"))
    /\ new_book \in BookVersions(Absent)
    /\ changes = <<>>
    /\ current_urls \in SUBSET Urls
    /\ stored_urls \in SUBSET Urls
    /\ new_urls = <<>>
    /\ returned = {}

DetectChanges ==
    /\ "detect_changes" \notin returned
    /\ changes' = detect_changes(old_book, new_book)
    /\ returned' = returned \cup {"detect_changes"}
    /\ UNCHANGED <<idle_vars, job_vars, api_vars, walk_vars, slot_vars, semaphore, dfetch, books, fetch_vars, store_vars, hash_vars,
                   old_book, new_book, current_urls, stored_urls, new_urls>>

DetectNewBooks ==
    /\ "detect_new_books" \notin returned
    /\ new_urls' \in ListOf(NewUrls(current_urls, stored_urls))
    /\ returned' = returned \cup {"detect_new_books"}
    /\ UNCHANGED <<idle_vars, job_vars, api_vars, walk_vars, slot_vars, semaphore, dfetch, books, fetch_vars, store_vars, hash_vars,
                   old_book, new_book, changes, current_urls, stored_urls>>

NextChanges == DetectChanges \/ DetectNewBooks

SpecChanges == InitChanges /\ [][NextChanges]_vars

\* ------------------------------------------- the progress document on its own
\* storage.py 133-177: save_crawl_progress calls, of one run or of several
\* in a row, and get_crawl_progress calls between them, against a store that
\* can reject any operation.
MaxSaves == 3

\* The CrawlProgress records passed to save_crawl_progress.
Progresses ==
    {MakeProgress(MaxBooks, completed, failed) :
        completed \in 0..1, failed \in SUBSET {1}}

\* get_crawl_progress (lines 167-177): the document found, without its _id,
\* as a CrawlProgress; None when the collection is empty.
GetCrawlProgress(coll) ==
    LET doc == FindOneProgress(coll)
    IN  IF doc # <<>>
        THEN [called |-> TRUE, answered |-> TRUE, found |-> TRUE, progress |-> doc[1]]
        ELSE [called |-> TRUE, answered |-> TRUE, found |-> FALSE, progress |-> NoProgress]

\* The variables the progress document's operations leave alone.
slot_frame == <<cpc, resume, sync_client, current_url, first_page_failed,
                pages_seen, page_links, failed_page, all_book_urls,
                existing_urls, book_urls, tasks, i, total_books,
                completed_books, failed_urls, progress, upserts_ok, saved,
                semaphore, dfetch, books, fetch_vars, store_vars, hash_vars,
                change_vars, walk_vars, api_vars, job_vars>>

InitProgress ==
    /\ NoJob
    /\ NoRequest
    /\ NoWalk
    /\ NoCrawl
    /\ semaphore = crawler_concurrency
    /\ dfetch = NoFetch
    /\ books = <<>>
    /\ NoFetchCall
    /\ NoUpsertCalls
    /\ NoHashCall
    /\ NoChangeCall
    /\ save_calls = 0
    /\ got = NoGet
    /\ saves = <<>>

\* save_crawl_progress(p) returns True (lines 144-154).
SaveCrawlProgressOk(p) ==
    /\ save_calls < MaxSaves
    /\ save_calls' = save_calls + 1
    /\ crawl_progress' = SaveProgressDoc(crawl_progress, p)
    /\ saves' = Append(saves, p)
    /\ UNCHANGED <<slot_frame, got>>

\* update_one raises and save_crawl_progress returns False (lines 156-158).
SaveCrawlProgressFails(p) ==
    /\ save_calls < MaxSaves
    /\ save_calls' = save_calls + 1
    /\ UNCHANGED <<slot_frame, crawl_progress, saves, got>>

\* get_crawl_progress returns what find_one gave it.
GetCrawlProgressOk ==
    /\ got' = GetCrawlProgress(crawl_progress)
    /\ got' # got
    /\ UNCHANGED <<slot_frame, crawl_progress, saves, save_calls>>

\* find_one raises and get_crawl_progress returns None (lines 175-177).
GetCrawlProgressFails ==
    /\ got' = [called |-> TRUE, answered |-> FALSE, found |-> FALSE, progress |-> NoProgress]
    /\ got' # got
    /\ UNCHANGED <<slot_frame, crawl_progress, saves, save_calls>>

NextProgress ==
    \/ \E p \in Progresses : SaveCrawlProgressOk(p)
    \/ \E p \in Progresses : SaveCrawlProgressFails(p)
    \/ GetCrawlProgressOk
    \/ GetCrawlProgressFails

SpecProgress == InitProgress /\ [][NextProgress]_vars

\* ------------------------------------------- get_all_book_urls on its own
\* scraper.py 146-167 against a site whose listing pages link to one another
\* in any way: the next-page link of a page is whatever the page says, a page
\* further on, the page itself or a page before it.  fetch_with_retry is
\* taken as one step here: it returns the page or None.
MaxWalk == 4

\* The listing pages of a site: what extract_book_links and
\* extract_next_page_url find on each (next = 0: no next-page link).
Catalogs ==
    [Pages -> [links : BoundedSeq(Urls, 1), next : Pages \cup {0}]]

\* The variables the walk leaves alone.
walk_frame == <<resume, sync_client, first_page_failed, page_links, failed_page,
                existing_urls, book_urls, tasks, i, total_books,
                completed_books, failed_urls, progress, upserts_ok,
                crawl_progress, saved, semaphore, dfetch, books, fetch_vars,
                store_vars, hash_vars, change_vars, slot_vars, api_vars, job_vars>>

InitDiscovery ==
    /\ NoJob
    /\ NoRequest
    /\ NoCrawl
    /\ semaphore = crawler_concurrency
    /\ dfetch = NoFetch
    /\ books = <<>>
    /\ NoFetchCall
    /\ NoUpsertCalls
    /\ NoHashCall
    /\ NoChangeCall
    /\ NoProgressCall
    /\ catalog \in Catalogs
    /\ visited = <<>>

\* Lines 146-147: all_book_urls = [], current_url = the first listing page.
WalkStart ==
    /\ cpc = "idle"
    /\ cpc' = "discover"
    /\ current_url' = 1
    /\ all_book_urls' = <<>>
    /\ UNCHANGED <<walk_frame, pages_seen, catalog, visited>>

\* Lines 151-164: the page arrives, its links are appended and current_url
\* becomes its next-page link; `while current_url` ends the walk on None.
WalkPageOk ==
    /\ cpc = "discover"
    /\ Len(visited) < MaxWalk
    /\ visited' = Append(visited, current_url)
    /\ pages_seen' = pages_seen + 1
    /\ all_book_urls' = all_book_urls \o catalog[current_url].links
    /\ current_url' = catalog[current_url].next
    /\ cpc' = IF current_url' # 0 THEN "discover" ELSE "discovered"
    /\ UNCHANGED <<walk_frame, catalog>>

\* Lines 152-155: fetch_with_retry returns None, `break`.
WalkPageFails ==
    /\ cpc = "discover"
    /\ Len(visited) < MaxWalk
    /\ visited' = Append(visited, current_url)
    /\ cpc' = "discovered"
    /\ UNCHANGED <<walk_frame, pages_seen, all_book_urls, current_url, catalog>>

NextDiscovery == WalkStart \/ WalkPageOk \/ WalkPageFails

SpecDiscovery == InitDiscovery /\ [][NextDiscovery]_vars

\* ------------------------------------------------------- the API on its own
\* One GET request to an endpoint of api/routes.py.  FastAPI resolves the
\* dependencies of the endpoint before anything else: Security(api_key_header)
\* and then verify_api_key (auth.py 13-38); an HTTPException raised there is
\* the response.  The other parameters are validated next, and then the
\* endpoint function is called, which is the wrapper of @limiter.limit around
\* the body.

\* settings.api_keys_list with the default configuration.
api_keys_list == {"dev_key_123"}

\* The endpoints of routes.py, which depend on verify_api_key, and the two of
\* main.py 85-116, which do not.
Protected == {"/books", "/books/{book_id}", "/changes"}
Endpoints == Protected \cup {"/health", "/"}

\* The X-API-Key header of a request: none, or one with a value.
Headers == {<<>>, <<"">>, <<"invalid_key">>, <<"dev_key_123">>}

\* The requests: params_ok says whether the query parameters pass their
\* Query(...) constraints (/books, /changes) or the book_id is a valid
\* ObjectId (/books/{book_id}).
Requests == [endpoint : Endpoints, header : Headers, params_ok : BOOLEAN]

\* APIKeyHeader(name="X-API-Key", auto_error=True): the header's value, an
\* error when there is no header or an empty one.
HasKey(header) == header # <<>> /\ header[1] # ""

\* Mutant: any key that is given is accepted.
KeyValid_Any(key) == TRUE
\* `api_key not in valid_keys` (auth.py 29-31)
KeyValid(key) == key \in api_keys_list

\* The database queries of an endpoint's body: count_documents and find for
\* the two lists, find_one for the detail, the ping of db.health_check.
BodyQueries(endpoint) ==
    IF endpoint \in {"/books", "/changes"} THEN 2
    ELSE IF endpoint = "/" THEN 0 ELSE 1

\* The variables a request leaves alone.
api_frame == <<idle_vars, semaphore, dfetch, books, fetch_vars, store_vars,
               hash_vars, change_vars, slot_vars, walk_vars, job_vars>>

InitApi ==
    /\ NoJob
    /\ NoCrawl
    /\ semaphore = crawler_concurrency
    /\ dfetch = NoFetch
    /\ books = <<>>
    /\ NoFetchCall
    /\ NoUpsertCalls
    /\ NoHashCall
    /\ NoChangeCall
    /\ NoProgressCall
    /\ NoWalk
    /\ request \in Requests
    /\ handler = IF request.endpoint \in Protected THEN "api_key_header" ELSE "body"
    /\ status_code = 0
    /\ body_ran = FALSE
    /\ db_queries = 0

Respond(code) ==
    /\ handler' = "responded"
    /\ status_code' = code

\* Security(api_key_header): 403 "Not authenticated" without a key.
ApiKeyHeader ==
    /\ handler = "api_key_header"
    /\ IF HasKey(request.header)
       THEN handler' = "verify_api_key" /\ UNCHANGED status_code
       ELSE Respond(403)
    /\ UNCHANGED <<api_frame, request, body_ran, db_queries>>

\* verify_api_key: 401 "Invalid API key" for a key that is not configured.
VerifyApiKey ==
    /\ handler = "verify_api_key"
    /\ IF request.header # <<>> /\ KeyValid(request.header[1])
       THEN handler' = "validate" /\ UNCHANGED status_code
       ELSE Respond(401)
    /\ UNCHANGED <<api_frame, request, body_ran, db_queries>>

\* The Query(...) constraints of routes.py 20-26 and 170-174: 422 when a
\* parameter fails them; book_id is any string.
ValidateParams ==
    /\ handler = "validate"
    /\ IF request.params_ok \/ request.endpoint = "/books/{book_id}"
       THEN handler' = "limit" /\ UNCHANGED status_code
       ELSE Respond(422)
    /\ UNCHANGED <<api_frame, request, body_ran, db_queries>>

\* @limiter.limit(get_rate_limit()): the caller is within its limit and the
\* body is entered, or RateLimitExceeded is raised (main.py 61-71).
RateLimit ==
    /\ handler = "limit"
    /\ \/ handler' = "body" /\ UNCHANGED status_code
       \/ Respond(429)
    /\ UNCHANGED <<api_frame, request, body_ran, db_queries>>

\* The body: the list endpoints count and find (routes.py 73-80, 208-215) and
\* answer 500 when a query fails; the detail endpoint answers 400 to a book_id
\* that is no ObjectId and else looks the book up (134-141); /health pings the
\* database and / answers without it.
Body ==
    /\ handler = "body"
    /\ body_ran' = TRUE
    /\ IF request.endpoint = "/books/{book_id}" /\ ~request.params_ok
       THEN Respond(400) /\ UNCHANGED db_queries
       ELSE IF request.endpoint \in Protected
       THEN \/ /\ db_queries' = db_queries + BodyQueries(request.endpoint)
               /\ \E code \in {200} \cup (IF request.endpoint = "/books/{book_id}"
                                          THEN {404} ELSE {}) : Respond(code)
            \/ /\ db_queries' = db_queries + 1
               /\ Respond(500)
       ELSE /\ db_queries' = db_queries + BodyQueries(request.endpoint)
            /\ Respond(200)
    /\ UNCHANGED <<api_frame, request>>

NextApi == ApiKeyHeader \/ VerifyApiKey \/ ValidateParams \/ RateLimit \/ Body

SpecApi == InitApi /\ [][NextApi]_vars

\* ------------------------------------- the change-detection job on its own
\* jobs.py 32-49 and change_detector.py 89-134: one run of
\* change_detection_job against any content of db.books.

\* Mutant: one change is detected for every stored book.
ChangesDetected_PerBook(stored_books) ==
    [n \in DOMAIN stored_books |->
        ChangeLog("123", "Test Book", "other", <<>>, <<>>)]
\* Line 111: changes_detected = []; nothing is compared or fetched.
ChangesDetected(stored_books) == <<>>

\* Lines 120-126: the summary.
Summary(urls, new_books_count, changes_detected) ==
    [total_books_checked |-> Cardinality(urls),
     new_books |-> new_books_count,
     changes_detected |-> Len(changes_detected)]

InitJob ==
    /\ NoCrawl
    /\ semaphore = crawler_concurrency
    /\ dfetch = NoFetch
    /\ NoFetchCall
    /\ NoUpsertCalls
    /\ NoHashCall
    /\ NoChangeCall
    /\ NoProgressCall
    /\ NoWalk
    /\ NoRequest
    /\ books \in Stores
    \* db.change_log is empty or holds an entry an earlier version of the job left.
    /\ change_log \in {<<>>, <<ChangeLog("123", "Test Book", "price_change", <<>>, <<>>)>>}
    /\ alerts_enabled \in BOOLEAN
    /\ job = "run_change_detection"
    /\ summary = <<>>
    /\ reports = 0
    /\ alerts = 0

\* run_change_detection (change_detector.py 98-134): the stored books are
\* read, the changes found (none) are logged and the summary is returned.
RunChangeDetection ==
    /\ job = "run_change_detection"
    /\ LET changes_detected == ChangesDetected(books)
           \* Line 112: new_books_count = 0
           new_books_count == 0
       IN  /\ change_log' = change_log \o changes_detected
           /\ summary' = <<Summary(StoredUrls(books), new_books_count, changes_detected)>>
    /\ job' = "summary"
    /\ UNCHANGED <<idle_vars, semaphore, dfetch, fetch_vars, store_vars, hash_vars,
                   change_vars, slot_vars, walk_vars, api_vars, books, reports, alerts, alerts_enabled>>

\* The read of db.books raises; the job logs the failure (jobs.py 48-49).
RunChangeDetectionRaises ==
    /\ job = "run_change_detection"
    /\ job' = "failed"
    /\ UNCHANGED <<idle_vars, semaphore, dfetch, fetch_vars, store_vars, hash_vars,
                   change_vars, slot_vars, walk_vars, api_vars, books, summary, change_log, reports, alerts, alerts_enabled>>

\* jobs.py 38-47: a report and, when configured, an alert, if changes were detected.
AfterSummary ==
    /\ job = "summary"
    /\ IF summary[1].changes_detected > 0
       THEN /\ reports' = reports + 1
            /\ alerts' = IF alerts_enabled THEN alerts + 1 ELSE alerts
       ELSE UNCHANGED <<reports, alerts>>
    /\ job' = "done"
    /\ UNCHANGED <<idle_vars, semaphore, dfetch, fetch_vars, store_vars, hash_vars,
                   change_vars, slot_vars, walk_vars, api_vars, books, summary, change_log, alerts_enabled>>

NextJob == RunChangeDetection \/ RunChangeDetectionRaises \/ AfterSummary

SpecJob == InitJob /\ [][NextJob]_vars

\* ================================================================== claims
Range(q) == {q[n] : n \in DOMAIN q}
Distinct(q) == \A m, n \in DOMAIN q : m # n => q[m] # q[n]

\* Requests awaiting their response inside `async with self.semaphore`.
InFlightCount ==
    Cardinality({k \in DOMAIN tasks : tasks[k].pc = "get"})
        + (IF dfetch.pc = "get" THEN 1 ELSE 0)

\* Addresses whose scrape_book coroutine has been scheduled.
Started == {tasks[k].url : k \in {j \in DOMAIN tasks : tasks[j].pc # "created"}}

\* The progress documents the run has built to persist, and the one stored.
Snapshots ==
    (IF progress.status # "unset" THEN {progress} ELSE {})
        \cup (IF saved > 0 THEN Range(crawl_progress) ELSE {})

RunEnded == cpc \in {"returned", "raised"}

\* C1: at every point of a run the number of requests in flight in
\* fetch_with_retry is at most crawler_concurrency, and a task that wants a
\* permit while crawler_concurrency requests are in flight stays waiting.
C1_ConcurrencyBound ==
    /\ [](InFlightCount <= crawler_concurrency)
    /\ [][\A k \in DOMAIN tasks :
             (tasks[k].pc = "acquire" /\ InFlightCount = crawler_concurrency
                /\ k \in DOMAIN tasks')
             => tasks'[k].pc = "acquire"]_vars

\* A retried request holds the last permit while another task waits for one.
C1_Witness ==
    \E k, j \in DOMAIN tasks :
        /\ tasks[k].pc = "get" /\ tasks[k].retries > 0
        /\ tasks[j].pc = "acquire"
        /\ InFlightCount = crawler_concurrency

\* C2: in a resume run the addresses whose pipeline is started are exactly the
\* discovered addresses minus the keys read from the store (those stored
\* before the run), and no stored address is upserted in the run.
C2_ResumeProcessesDMinusS ==
    (resume /\ cpc \in {"gather", "save", "final_save", "returned"}) =>
        /\ existing_urls = {books[n].url : n \in {m \in DOMAIN books : books[m].version = "old"}}
        /\ Range(book_urls) = Range(all_book_urls) \ existing_urls
        /\ Started \subseteq Range(all_book_urls) \ existing_urls
        /\ cpc \in {"final_save", "returned"} =>
               Started = Range(all_book_urls) \ existing_urls
        /\ Len(tasks) = Len(book_urls)

\* A resume run ended having skipped a stored address and processed another.
C2_Witness ==
    /\ resume /\ cpc = "returned"
    /\ Range(all_book_urls) \cap existing_urls # {}
    /\ \E k \in DOMAIN tasks : tasks[k].counted

\* C3: whatever pipelines fail, at whatever stage, the run does not raise:
\* it goes on while something is left to do, and when it returns every
\* pipeline has run and the final progress has been built and handed to the
\* store.
C3_ItemFailureNeverAborts ==
    /\ cpc = "raised" => tasks = <<>>
    /\ ~RunEnded => ENABLED Next
    /\ cpc = "returned" =>
          /\ Len(tasks) = Len(book_urls)
          /\ \A k \in DOMAIN tasks : tasks[k].pc = "done"
          /\ progress = MakeProgress(total_books, completed_books, failed_urls)

\* The run returned after a validation error, a rejected upsert and a
\* success.
C3_Witness ==
    /\ cpc = "returned"
    /\ \E k, j, l \in DOMAIN tasks :
          /\ tasks[k].failed_stage = "validate"
          /\ tasks[j].failed_stage = "upsert"
          /\ tasks[l].counted

\* C4 as claimed: a pipeline in which any stage failed, the snapshot of the
\* raw content included, ends with its address in failed_urls and uncounted.
C4_AnyStageFailureMarksFailed ==
    \A k \in DOMAIN tasks :
        (tasks[k].pc = "done"
            /\ (tasks[k].failed_stage # "none" \/ tasks[k].html_snapshot_id = "None"))
        => (tasks[k].url \in failed_urls /\ ~tasks[k].counted)

\* C4 amended: a pipeline whose fetch, extraction, validation or upsert failed
\* ends with its address in failed_urls and uncounted; a pipeline in which
\* only the snapshot was not stored ends counted, its record upserted with no
\* snapshot id.
C4_StageFailureMarksFailed ==
    \A k \in DOMAIN tasks :
        tasks[k].pc = "done" =>
            IF tasks[k].failed_stage # "none"
            THEN tasks[k].url \in failed_urls /\ ~tasks[k].counted
            ELSE /\ tasks[k].counted
                 /\ \E n \in DOMAIN books : books[n].url = tasks[k].url
                                              /\ books[n].version = "new"

\* One pipeline failed at each stage and one was counted without a snapshot.
C4_Witness ==
    \E k, j \in DOMAIN tasks :
        /\ tasks[k].pc = "done" /\ tasks[k].failed_stage = "extract"
        /\ tasks[j].pc = "done" /\ tasks[j].counted
        /\ tasks[j].html_snapshot_id = "None"
        /\ tasks[j].url \notin failed_urls

\* C5: in every progress snapshot of the run, completed_pages plus the number
\* of failed_pages is at most total_pages.
C5_CompletedPlusFailedAtMostTotal ==
    \A p \in Snapshots :
        /\ p.completed_pages + Cardinality(p.failed_pages) <= p.total_pages
        /\ p.completed_pages <= p.total_pages

\* A stored snapshot with successes and failures that add up to the total.
C5_Witness ==
    /\ saved > 0
    /\ crawl_progress[1].completed_pages > 0
    /\ crawl_progress[1].failed_pages # {}
    /\ crawl_progress[1].completed_pages
          + Cardinality(crawl_progress[1].failed_pages) = crawl_progress[1].total_pages

\* C6 as claimed: the final snapshot of every finished run has
\* completed_pages + len(failed_pages) = total_pages.
C6_FinishedRunAddsUp ==
    cpc = "returned" =>
        progress.completed_pages + Cardinality(progress.failed_pages)
            = progress.total_pages

\* C7: a progress snapshot has status "partial" exactly when its failed_pages
\* is not empty.
C7_PartialIffFailed ==
    \A p \in Snapshots : (p.status = "partial") <=> (p.failed_pages # {})

\* A partial snapshot and, later in a run, a stored one.
C7_Witness ==
    /\ saved > 0
    /\ crawl_progress[1].status = "partial"
    /\ crawl_progress[1].completed_pages > 0

ParseFailed == {tasks[k].url : k \in {j \in DOMAIN tasks : tasks[j].failed_stage = "extract"}}

C9_EndToEnd ==
    (/\ cpc = "returned" /\ ~resume /\ pages_seen = 1
     /\ Distinct(all_book_urls)
     /\ \A k \in DOMAIN tasks : tasks[k].failed_stage \in {"none", "extract"})
    => /\ progress.total_pages = Len(all_book_urls)
       /\ progress.completed_pages = Len(all_book_urls) - Cardinality(ParseFailed)
       /\ progress.failed_pages = ParseFailed
       /\ progress.status = (IF ParseFailed # {} THEN "partial" ELSE "success")

\* Such a run ended with one parse failure among its addresses.
C9_Witness ==
    /\ cpc = "returned" /\ ~resume /\ pages_seen = 1
    /\ Distinct(all_book_urls)
    /\ Len(all_book_urls) = MaxLinks
    /\ \A k \in DOMAIN tasks : tasks[k].failed_stage \in {"none", "extract"}
    /\ Cardinality(ParseFailed) = 1
    /\ progress.completed_pages = MaxLinks - 1
    /\ saved > 0 /\ crawl_progress[1] = progress

\* C10 as claimed: when the fetch of the first listing page gives up, the run
\* aborts: no pipeline is started, no progress reporting success is built or
\* returned, and the crawl command ends with a non-zero status.
C10_FirstPageFailureIsFatal ==
    first_page_failed =>
        /\ Started = {}
        /\ progress.status # "success"
        /\ cpc # "returned"
        /\ RunEnded => ExitStatus # 0

\* C11: when the fetch of listing page k > 1 gives up after its retries,
\* get_all_book_urls returns exactly the links of pages 1..k-1 in page order,
\* and the run goes on with them: it counts them, filters them when resuming,
\* runs their pipelines and returns; it raises only if reading the stored
\* keys raises.
C11_LaterPageFailureIsSoft ==
    /\ [](failed_page > 1 =>
            /\ cpc # "discover"
            /\ pages_seen = failed_page - 1
            /\ Len(page_links) = failed_page - 1
            /\ all_book_urls = Concat(page_links)
            /\ total_books = Len(all_book_urls)
            /\ cpc \in {"gather", "save", "final_save", "returned"} =>
                   /\ ~resume => book_urls = all_book_urls
                   /\ Range(book_urls) = Range(all_book_urls) \ existing_urls
                   /\ Len(tasks) = Len(book_urls)
            /\ cpc = "returned" => \A k \in DOMAIN tasks : tasks[k].pc = "done")
    /\ [][failed_page' > 1 =>
             /\ all_book_urls' = all_book_urls
             /\ cpc' = "raised" => cpc \in {"read_existing", "raised"}]_vars

\* The second listing page could not be fetched and the run returned having
\* stored a book of the first.
C11_Witness ==
    /\ failed_page = 2
    /\ cpc = "returned"
    /\ all_book_urls # <<>>
    /\ all_book_urls = page_links[1]
    /\ \E k \in DOMAIN tasks : tasks[k].counted

\* C12: the sleep after the failed attempt of 0-based index n is 2^n seconds:
\* with max_retries = 3 the sleeps before attempts 2, 3 and 4 are 1, 2 and 4
\* seconds, and the last failed attempt is followed by no sleep.
C12_BackoffSchedule ==
    /\ \A n \in DOMAIN waits : waits[n] = 2 ^ (n - 1) /\ waits[n] = <<1, 2, 4>>[n]
    /\ Len(waits) <= max_retries
    /\ dfetch.pc = "sleep" => (Len(waits) = attempts /\ dfetch.wait_time = waits[attempts])
    /\ dfetch.pc = "acquire" => Len(waits) = attempts
    /\ fetch_result = "None" => (attempts = max_retries + 1 /\ waits = <<1, 2, 4>>)

\* Four attempts failed: the call slept 1, 2 and 4 seconds and gave up.
C12_Witness ==
    /\ fetch_result = "None"
    /\ attempts = 4
    /\ waits = <<1, 2, 4>>

\* C13: a call of fetch_with_retry makes at most max_retries + 1 requests and
\* ends; when every request fails with an error of the except clause it makes
\* exactly max_retries + 1 of them and returns None without raising; when a
\* request succeeds it returns the body; once it has returned it makes no
\* request.
C13_FetchTerminates ==
    /\ [](attempts <= max_retries + 1)
    /\ [](fetch_result = "None" =>
            /\ attempts = max_retries + 1
            /\ \A n \in 1..attempts : responses[n] \in Retryable)
    /\ []((\A n \in DOMAIN responses : responses[n] \in Retryable) =>
            fetch_result \in {"pending", "None"})
    /\ [](fetch_result = "text" =>
            /\ responses[attempts] = "text"
            /\ \A n \in 1..(attempts - 1) : responses[n] \in Retryable)
    /\ [][fetch_result # "pending" => attempts' = attempts /\ fetch_result' = fetch_result]_vars
    /\ <>(fetch_result # "pending")

\* Every request failed with a timeout: the call has returned None after
\* max_retries + 1 requests, its permit released.
C13_Witness ==
    /\ \A n \in DOMAIN responses : responses[n] = "TimeoutException"
    /\ dfetch.pc = "returned"
    /\ fetch_result = "None"
    /\ attempts = max_retries + 1
    /\ semaphore = crawler_concurrency

\* The stored documents of key u, their number, and the item fields of one.
KeyRecords(coll, u) == {coll[n] : n \in {m \in DOMAIN coll : coll[m].url = u}}
KeyCount(coll, u) == Cardinality({m \in DOMAIN coll : coll[m].url = u})
ItemFields(d) ==
    [url |-> d.url, version |-> d.version, html_snapshot_id |-> d.html_snapshot_id]
\* The calls for key u that returned True.
Applied(u) == {c \in DOMAIN calls : calls[c].book.url = u /\ calls[c].pc = "True"}

\* C14: when the upserts of a key that returned True all carried the same
\* fields, however many they are and whatever the store held, the store
\* holds exactly one document of the key, with those fields; and the number
\* of documents is the number before the calls plus one per key that was not
\* stored and has been upserted, however many upserts each key had.
C14_UpsertIdempotent ==
    /\ \A u \in Urls :
          (Applied(u) # {}
             /\ \A c, d \in Applied(u) : calls[c].book = calls[d].book)
          => /\ KeyCount(books, u) = 1
             /\ \A r \in KeyRecords(books, u) :
                   \A c \in Applied(u) : ItemFields(r) = calls[c].book
    /\ Len(books) = Len(books_before)
          + Cardinality({u \in Urls : KeyCount(books_before, u) = 0 /\ Applied(u) # {}})

\* MaxCalls upserts of one book, of a key the store did not hold beside
\* another it held, all returned True and left one document of the key.
C14_Witness ==
    /\ Len(calls) = MaxCalls
    /\ \A c \in DOMAIN calls : calls[c].pc = "True" /\ calls[c].book = calls[1].book
    /\ Len(books_before) = 1
    /\ KeyCount(books_before, calls[1].book.url) = 0
    /\ KeyCount(books, calls[1].book.url) = 1
    /\ Len(books) = 2

\* C15: whatever the interleaving of the upserts of one key, the store never
\* holds two documents of the key, and once an upsert of the key has returned
\* True the stored document has the fields of one upsert of the key that
\* returned True.
C15_NoDuplicateKeyUnderConcurrency ==
    \A u \in Urls :
        /\ KeyCount(books, u) <= 1
        /\ Applied(u) # {} =>
              /\ KeyCount(books, u) = 1
              /\ \A r \in KeyRecords(books, u) :
                    \E c \in Applied(u) : ItemFields(r) = calls[c].book

\* Two upserts of a key with different fields raced: both found no match, one
\* has inserted and the other is about to.
C15_Witness ==
    \E c, d \in DOMAIN calls :
        /\ calls[c].book.url = calls[d].book.url
        /\ calls[c].book # calls[d].book
        /\ calls[c].pc = "True"
        /\ calls[d].pc = "insert"
        /\ KeyCount(books_before, calls[c].book.url) = 0
        /\ KeyCount(books, calls[c].book.url) = 1

\* C16: a step changes the documents of a key only when an upsert of that
\* key is applied in it, and a key that no upsert has been applied to has
\* the documents it had before the calls.
C16_NoCrossKeyInterference ==
    /\ [](\A u \in Urls :
            Applied(u) = {} =>
                /\ KeyRecords(books, u) = KeyRecords(books_before, u)
                /\ KeyCount(books, u) = KeyCount(books_before, u))
    /\ [][\A u \in Urls :
             (KeyRecords(books', u) # KeyRecords(books, u)
                \/ KeyCount(books', u) # KeyCount(books, u))
             => \E c \in DOMAIN calls :
                   /\ calls[c].book.url = u
                   /\ calls[c].pc # "True"
                   /\ calls'[c].pc = "True"]_vars

\* Upserts of another key were applied, one of them an insert, while the
\* stored document of a key without upsert stayed as it was.
C16_Witness ==
    \E u, v \in Urls :
        /\ u # v
        /\ Applied(u) = {}
        /\ KeyCount(books_before, u) = 1
        /\ KeyRecords(books, u) = KeyRecords(books_before, u)
        /\ KeyCount(books_before, v) = 0
        /\ Cardinality(Applied(v)) >= 2

\* C17: in the step in which upsert_book(item) succeeds, a document is added
\* if the store held none of the address, and otherwise the document of the
\* address keeps its _id and has every item field replaced; in both cases
\* find_one on the address then gives the fields of item.
C17_UpsertCreatesOrReplaces ==
    [][\A c \in DOMAIN calls :
         (calls[c].pc # "True" /\ calls'[c].pc = "True") =>
            LET item == calls[c].book IN
            /\ FindOne(books', item.url) # <<>>
            /\ ItemFields(FindOne(books', item.url)[1]) = item
            /\ KeyCount(books', item.url) = 1
            /\ IF KeyCount(books, item.url) = 0
               THEN Len(books') = Len(books) + 1
               ELSE /\ Len(books') = Len(books)
                    /\ FindOne(books', item.url)[1]._id = FindOne(books, item.url)[1]._id]_vars

\* A stored document with a snapshot id was replaced by an item of another
\* version without one, and another item was inserted.
C17_Witness ==
    \E c, d \in DOMAIN calls :
        /\ calls[c].pc = "True" /\ calls[d].pc = "True"
        /\ calls[c].book.url # calls[d].book.url
        /\ calls[c].book.version = "new" /\ calls[c].book.html_snapshot_id = "None"
        /\ \E r \in KeyRecords(books_before, calls[c].book.url) :
              r.version = "old" /\ r.html_snapshot_id = "id"
        /\ KeyCount(books_before, calls[d].book.url) = 0
        /\ \A r \in KeyRecords(books, calls[c].book.url) : ItemFields(r) = calls[c].book
        /\ Len(calls) = 2

\* C18: a pipeline whose upsert the store rejects ends with its address in
\* failed_urls and uncounted; the rejection leaves the count and the stored
\* books as they were; and a pipeline awaits upsert_book at most once: it
\* reaches the upsert from its fetch only, and once the upsert is over it
\* does not change any more.
C18_RejectedUpsertIsRecordedOnce ==
    /\ [](\A k \in DOMAIN tasks :
            tasks[k].failed_stage = "upsert" =>
                /\ tasks[k].pc = "done"
                /\ tasks[k].url \in failed_urls
                /\ ~tasks[k].counted)
    /\ [][\A k \in DOMAIN tasks :
             /\ (tasks[k].pc = "upsert" /\ tasks'[k].failed_stage = "upsert") =>
                    /\ completed_books' = completed_books
                    /\ books' = books
                    /\ tasks[k].url \in failed_urls'
             /\ (tasks[k].pc # "upsert" /\ tasks'[k].pc = "upsert") => tasks[k].pc = "get"
             /\ tasks[k].pc \in {"upserted", "done"} =>
                    tasks'[k].pc \in {"upserted", "done"}
             /\ tasks[k].pc = "done" => tasks'[k] = tasks[k]]_vars

\* The store rejected the upsert of one address and accepted that of another;
\* the run returned with the first in failed_pages.
C18_Witness ==
    /\ cpc = "returned"
    /\ \E k, j \in DOMAIN tasks :
          /\ tasks[k].failed_stage = "upsert"
          /\ tasks[j].counted
          /\ tasks[k].url # tasks[j].url
          /\ tasks[k].url \in progress.failed_pages
          /\ \A n \in DOMAIN books : books[n].url # tasks[k].url

\* The values of field k in the record d as a Book has them: an absent field
\* is None.
FieldValues(d, k) ==
    LET S == {d[n][2] : n \in {m \in DOMAIN d : d[m][1] = k}}
    IN  IF S = {} THEN {PyNone} ELSE S
HashedFields == {"name", "price_incl_tax", "price_excl_tax", "availability", "description"}
Hashed == content_hash[1] # <<>> /\ content_hash[2] # <<>>

\* C19: two records with the same name, price_incl_tax, price_excl_tax,
\* availability and description get the same hash, whatever the order of
\* their keys and whatever their other fields.
C19_HashIgnoresOrderAndOtherFields ==
    (Hashed /\ \A k \in HashedFields :
                  FieldValues(book_data[1], k) = FieldValues(book_data[2], k))
    => content_hash[1] = content_hash[2]

\* Two records that agree on the five fields, with their keys in different
\* orders and different review counts, were hashed.
C19_Witness ==
    /\ Hashed
    /\ \A k \in HashedFields :
          FieldValues(book_data[1], k) = FieldValues(book_data[2], k)
    /\ book_data[1][1][1] # book_data[2][1][1]
    /\ FieldValues(book_data[1], "num_reviews") # FieldValues(book_data[2], "num_reviews")
    /\ content_hash[1] = content_hash[2]

\* C20: two records that differ in one of name, price_incl_tax,
\* price_excl_tax, availability and description get different hashes.
C20_HashSeparatesHashedFields ==
    (Hashed /\ \E k \in HashedFields :
                  FieldValues(book_data[1], k) # FieldValues(book_data[2], k))
    => content_hash[1] # content_hash[2]

\* Two records that differ only in the description, None in one and the text
\* "null" in the other, were hashed.
C20_Witness ==
    /\ Hashed
    /\ FieldValues(book_data[1], "description") = {PyNone}
    /\ FieldValues(book_data[2], "description") = {PyStr("null")}
    /\ \A k \in HashedFields \ {"description"} :
          FieldValues(book_data[1], k) = FieldValues(book_data[2], k)
    /\ content_hash[1] # content_hash[2]

\* ---------------------------------------------------------------- C30
\* The logical fetches in progress: fetch_with_retry calls that have made an
\* attempt and not yet returned, be they in client.get, asleep between two
\* attempts or about to try again.
InProgress(f) == f.pc \in {"get", "sleep"} \/ (f.pc = "acquire" /\ f.retries > 0)

LogicalFetches ==
    Cardinality({k \in DOMAIN tasks : InProgress(tasks[k])})
        + (IF InProgress(dfetch) THEN 1 ELSE 0)

\* C30: a logical fetch keeps its permit from its first attempt until it
\* returns, backoff sleeps included, so the logical fetches that have started
\* and not yet returned never outnumber the permits.
C30_PermitHeldAcrossRetries == LogicalFetches <= crawler_concurrency

\* ---------------------------------------------------------------- C26
\* C26: a snapshot of the current run is persisted when the run starts, so
\* from the start of discovery on (wherever the process may crash) the
\* progress collection holds a snapshot this run has written.
C26_SnapshotFromRunStart ==
    cpc \in {"discover", "read_existing", "gather", "save", "final_save", "returned"}
        => saved > 0 /\ crawl_progress # <<>>

\* ---------------------------------------------------------------- C25
\* Positions (1-based) of the pipelines that have been scheduled.
StartedIdx(ts) == {k \in DOMAIN ts : ts[k].pc # "created"}

\* ceil(n / batch_size) batches cover n addresses.
NumBatches(n) == (n + batch_size - 1) \div batch_size

\* C25: the addresses are processed in consecutive batches of batch_size.
\* Pipelines start only batch by batch, a batch starts only once every
\* pipeline before it has ended and (but for the first batch) from the save of
\* the batch before it; the snapshot of a batch is built from the counters
\* when its last pipeline has ended and is the document the save writes; the
\* loop ends after ceil(n / batch_size) batch saves and the final save
\* follows, so a run persists at most that many snapshots plus one.
C25_BatchThenSnapshot ==
    [][ /\ \A k \in StartedIdx(tasks') \ StartedIdx(tasks) :
              /\ i' % batch_size = 0
              /\ i' < k /\ k <= i' + batch_size
              /\ \A j \in 1..i' : tasks'[j].pc = "done"
              /\ StartedIdx(tasks') = 1..(IF i' + batch_size < Len(tasks')
                                          THEN i' + batch_size ELSE Len(tasks'))
              /\ i' > 0 => cpc = "save" /\ i' = i + batch_size
        /\ cpc = "gather" /\ cpc' = "save" =>
              /\ \A k \in 1..Len(tasks) :
                    k <= i + batch_size => tasks[k].pc = "done"
              /\ progress' = MakeProgress(total_books, completed_books, failed_urls)
        /\ cpc = "save" /\ cpc' # "save" =>
              /\ \/ crawl_progress' = <<progress>> /\ saved' = saved + 1
                 \/ UNCHANGED <<crawl_progress, saved>>
              /\ cpc' \in {"gather", "final_save"}
              /\ cpc' = "final_save" <=> i' >= Len(book_urls)
        /\ cpc' = "final_save" =>
              /\ i' = batch_size * NumBatches(Len(book_urls))
              /\ saved' <= NumBatches(Len(book_urls))
        /\ cpc = "final_save" /\ cpc' = "returned" =>
              \/ crawl_progress' = <<progress>> /\ saved' = saved + 1
              \/ UNCHANGED <<crawl_progress, saved>>
      ]_vars

\* A run over three addresses (two batches) has ended with both batch
\* snapshots and the final snapshot persisted.
C25_Witness ==
    /\ cpc = "returned"
    /\ Len(book_urls) > batch_size
    /\ i = batch_size * NumBatches(Len(book_urls))
    /\ saved = NumBatches(Len(book_urls)) + 1

\* ---------------------------------------------------------------- C24
\* C24: when the run is cancelled during item processing, the requests in
\* flight are left to finish (none is aborted), no pipeline is started
\* afterwards, and the run ends with a final snapshot of status partial
\* persisted.  Stated on the step that cancels and on the state the cancelled
\* run ends in.
C24_CancelKeepsRequestsAndSavesPartial ==
    /\ [](cpc = "cancelled" =>
            /\ saved > 0
            /\ crawl_progress # <<>>
            /\ crawl_progress[1].status = "partial")
    /\ [][cpc' = "cancelled" =>
            /\ \A k \in DOMAIN tasks : tasks[k].pc = "get" => tasks'[k].pc = "get"
            /\ StartedIdx(tasks') = StartedIdx(tasks)]_vars

\* ---------------------------------------------------------------- C21..C23
\* The events of a category among those detect_changes returned.
EventsOf(category) == {n \in DOMAIN changes : changes[n].change_type = category}

\* The value of a field group of a record: both prices, the availability,
\* the description (None when left out).
PricePair(d) == Fields(d, <<"price_incl_tax", "price_excl_tax">>)
GroupValue(d, category) ==
    IF category = "price_change" THEN PricePair(d)
    ELSE IF category = "availability_change" THEN <<Get(d, "availability")>>
    ELSE <<Get(d, "description")>>

ChangeCategories == {"price_change", "availability_change", "description_change"}

\* C21: detect_changes returns exactly one event, of the group's category,
\* for each of the groups price, availability and description whose value
\* differs between the two records, none for a group whose value is the same
\* (so none at all for identical records), and no event of another category.
C21_OneEventPerChangedGroup ==
    "detect_changes" \in returned =>
        /\ \A c \in ChangeCategories :
              Cardinality(EventsOf(c)) =
                  IF GroupValue(old_book, c) # GroupValue(new_book, c) THEN 1 ELSE 0
        /\ \A n \in DOMAIN changes : changes[n].change_type \in ChangeCategories

\* C22: detect_changes returns a price_change event exactly when the pair
\* (price_incl_tax, price_excl_tax) of the old record differs from that of
\* the new one, exactly one, carrying both prices of the old record as
\* old_value and both of the new record as new_value.
C22_PriceChangeIffPairDiffers ==
    "detect_changes" \in returned =>
        /\ EventsOf("price_change") # {} <=> PricePair(old_book) # PricePair(new_book)
        /\ Cardinality(EventsOf("price_change")) <= 1
        /\ \A n \in EventsOf("price_change") :
              /\ changes[n].old_value = PricePair(old_book)
              /\ changes[n].new_value = PricePair(new_book)

\* C23: detect_new_books returns the keys that are current and not stored,
\* each once, nothing when every current key is stored; the call adds no
\* event and leaves the store alone.
C23_NewBooksIsSetDifference ==
    /\ []("detect_new_books" \in returned =>
            /\ \A u \in Urls :
                  Cardinality({n \in DOMAIN new_urls : new_urls[n] = u}) =
                      IF u \in current_urls /\ u \notin stored_urls THEN 1 ELSE 0
            /\ current_urls \subseteq stored_urls => new_urls = <<>>)
    /\ [][("detect_new_books" \in returned' /\ "detect_new_books" \notin returned) =>
            /\ changes' = changes
            /\ books' = books
            /\ crawl_progress' = crawl_progress]_vars

\* detect_new_books has returned one new key out of two current ones.
C23_Witness ==
    /\ "detect_new_books" \in returned
    /\ Cardinality(current_urls) = 2
    /\ Cardinality(stored_urls \cap current_urls) = 1
    /\ Len(new_urls) = 1

\* ---------------------------------------------------------------- C27
\* C27: after any sequence of save_crawl_progress calls the progress
\* collection holds at most one document, which is the record of the most
\* recent save the store accepted, and a get_crawl_progress call that the
\* store answers returns that record (None while no save has been accepted).
C27_SingleSlotHoldsLatest ==
    /\ [](/\ Len(crawl_progress) <= 1
          /\ saves # <<>> => crawl_progress = <<saves[Len(saves)]>>
          /\ saves = <<>> => crawl_progress = <<>>)
    /\ [][(got' # got /\ got'.answered) =>
            IF saves = <<>>
            THEN ~got'.found
            ELSE got'.found /\ got'.progress = saves[Len(saves)]]_vars

\* Two different records were saved, a third save was rejected, and
\* get_crawl_progress returned the second record.
C27_Witness ==
    /\ Len(saves) = 2
    /\ saves[1] # saves[2]
    /\ save_calls = 3
    /\ got.found
    /\ got.progress = saves[2]
    /\ Len(crawl_progress) = 1

\* ---------------------------------------------------------------- C28
\* C28: discovery ends on every site, one whose next-page links lead back to
\* a page already fetched included.  A walk that ends has fetched no page
\* twice (the site being the same, a walk that is back on a page it has
\* fetched goes round again), so it has made at most as many fetches as the
\* site has listing pages.
C28_DiscoveryEnds ==
    /\ Distinct(visited)
    /\ Len(visited) <= MaxPages

\* ---------------------------------------------------------------- C29
\* The request carries no key: no X-API-Key header, or an empty one.
NoKey == request.header = <<>> \/ request.header = <<"">>
\* The request carries a key that is not in the configured list.
WrongKey == ~NoKey /\ request.header[1] # "dev_key_123"

\* C29: a request to the books list, the book detail or the changes endpoint
\* without an X-API-Key is answered with 403 and one whose key is not in the
\* configured list with 401, whatever its other parameters; for neither is
\* the endpoint's body entered or the database queried, at any point.
C29_UnauthenticatedIsRejectedFirst ==
    (request # <<>> /\ request.endpoint \in Protected /\ (NoKey \/ WrongKey)) =>
        /\ ~body_ran
        /\ db_queries = 0
        /\ handler = "responded" => status_code = (IF NoKey THEN 403 ELSE 401)
        /\ handler \in {"api_key_header", "verify_api_key", "responded"}

\* A request with a wrong key and parameters that would not pass validation
\* was answered with 401.
C29_Witness ==
    /\ request # <<>>
    /\ WrongKey
    /\ ~request.params_ok
    /\ request.endpoint = "/changes"
    /\ handler = "responded"
    /\ status_code = 401

\* ---------------------------------------------------------------- C31
\* The pipelines that have counted their book.
Counted(ts) == {k \in DOMAIN ts : ts[k].counted}

\* C31: a record is persisted before the progress reflects it.  At every
\* point the completed count, the CrawlProgress built last and every snapshot
\* this run has persisted show at most as many completed books as upserts the
\* store has accepted in this run; a pipeline that has counted its book has
\* ended without failure and the store holds the record it wrote; and a
\* pipeline counts its book only in the step after its upsert was accepted,
\* having come through fetch and extraction.
C31_PersistBeforeProgress ==
    /\ [](/\ completed_books <= upserts_ok
          /\ progress.completed_pages <= upserts_ok
          /\ saved > 0 => \A n \in DOMAIN crawl_progress :
                             crawl_progress[n].completed_pages <= upserts_ok
          /\ \A k \in Counted(tasks) :
                /\ tasks[k].pc = "done"
                /\ tasks[k].failed_stage = "none"
                /\ \E n \in DOMAIN books :
                      books[n].url = tasks[k].url /\ books[n].version = "new")
    /\ [][\A k \in Counted(tasks') \ Counted(tasks) :
             /\ k \in DOMAIN tasks
             /\ tasks[k].pc = "upserted"
             /\ books' = books
             /\ completed_books' = completed_books + 1]_vars

\* A snapshot persisted after the first batch shows one completed book while
\* a second upsert of the run has been accepted and not yet counted.
C31_Witness ==
    /\ saved > 0
    /\ crawl_progress[1].completed_pages = 1
    /\ upserts_ok = 2
    /\ completed_books = 1
    /\ \E k \in DOMAIN tasks : tasks[k].pc = "upserted"

\* ---------------------------------------------------------------- C32
\* The addresses of the pipelines that ended in failure.
FailedTasks(ts) == {ts[k].url : k \in {j \in DOMAIN ts : ts[j].failed_stage # "none"}}

\* C32: no update of the pipelines to the completed count or to the failed
\* set is lost, however the pipelines of a batch interleave: the count is the
\* number of pipelines of the run that counted their book and the set holds
\* the address of every pipeline that ended in failure, at every point and
\* so when a batch ends, where every pipeline gathered so far has ended as
\* the one or the other.
C32_NoLostUpdate ==
    /\ completed_books = Cardinality(Counted(tasks))
    /\ failed_urls = FailedTasks(tasks)
    /\ cpc \in {"save", "final_save", "returned"} =>
          \A k \in DOMAIN tasks :
              k <= i + batch_size =>
                  /\ tasks[k].pc = "done"
                  /\ tasks[k].counted \/ tasks[k].url \in failed_urls

\* The first batch of two pipelines has ended, one with its book counted and
\* the other in failure, and the second batch with a further failure.
C32_Witness ==
    /\ cpc = "save"
    /\ i = batch_size
    /\ completed_books = 1
    /\ Cardinality(failed_urls) = 2
    /\ \E k \in 1..batch_size : tasks[k].counted
    /\ \E k \in 1..batch_size : tasks[k].failed_stage # "none"

\* ---------------------------------------------------------------- C33
\* C33: run_change_detection fetches nothing, does not call detect_changes
\* and leaves db.books and db.change_log as they are; whatever the store
\* holds, its summary has changes_detected = 0, new_books = 0 and
\* total_books_checked = the number of stored keys, so the job writes no
\* report and sends no alert.
C33_ChangeDetectionIsNoOp ==
    /\ [](/\ summary # <<>> =>
                /\ summary[1].changes_detected = 0
                /\ summary[1].new_books = 0
                /\ summary[1].total_books_checked =
                       Cardinality({books[n].url : n \in DOMAIN books})
          /\ reports = 0
          /\ alerts = 0
          /\ returned = {}
          /\ attempts = 0)
    /\ [][books' = books /\ change_log' = change_log]_vars

\* The job has ended over a store of two books and a change history, with
\* alerts configured.
C33_Witness ==
    /\ job = "done"
    /\ Len(books) = 2
    /\ change_log # <<>>
    /\ alerts_enabled
    /\ summary # <<>>
    /\ summary[1].total_books_checked = 2

\* ---------------------------------------------------------------- C34
\* C34: detect_changes decides the price category by price_incl_tax alone: a
\* price_change event is returned exactly when price_incl_tax differs, and
\* none when it is equal, whatever price_excl_tax is.
C34_PriceDecidedByInclTaxAlone ==
    "detect_changes" \in returned =>
        /\ EventsOf("price_change") # {}
              <=> Get(old_book, "price_incl_tax") # Get(new_book, "price_incl_tax")
        /\ Get(old_book, "price_incl_tax") = Get(new_book, "price_incl_tax")
              => \A n \in DOMAIN changes : changes[n].change_type # "price_change"

\* Two records of the same name whose fingerprints differ (price_excl_tax
\* differs) were compared and no event was returned.
C34_Witness ==
    /\ "detect_changes" \in returned
    /\ changes = <<>>
    /\ Get(old_book, "name") = Get(new_book, "name")
    /\ Get(old_book, "price_excl_tax") # Get(new_book, "price_excl_tax")
    /\ generate_content_hash(old_book) # generate_content_hash(new_book)

\* ---------------------------------------------------------------- C35
\* C35: total_pages of every CrawlProgress of a run, built or persisted, is
\* the number of addresses discovery returned, duplicates counted, and not
\* the number left after the resume filter.  A resume run all of whose
\* discovered addresses are stored starts no pipeline and returns
\* total_pages = |D|, completed_pages = 0, no failed page, status success.
C35_TotalIsDiscoveredCount ==
    /\ progress.status # "unset" => progress.total_pages = Len(all_book_urls)
    /\ saved > 0 => crawl_progress[1].total_pages = Len(all_book_urls)
    /\ (cpc = "returned" /\ resume /\ Range(all_book_urls) \subseteq existing_urls) =>
          /\ tasks = <<>>
          /\ progress = [total_pages |-> Len(all_book_urls), completed_pages |-> 0,
                         failed_pages |-> {}, status |-> "success"]
          /\ saved <= 1

\* A resume run discovered the same stored address twice and another stored
\* address, and returned with its final snapshot persisted.
C35_Witness ==
    /\ cpc = "returned"
    /\ resume
    /\ Len(all_book_urls) = 3
    /\ ~Distinct(all_book_urls)
    /\ Range(all_book_urls) \subseteq existing_urls
    /\ saved = 1
    /\ crawl_progress[1].total_pages = 3
    /\ crawl_progress[1].completed_pages = 0

\* ---------------------------------------------------------------- C36
\* C36: no CrawlProgress that crawl_all_books builds, persists or returns has
\* the status "failed": it is "success" or "partial".  A run whose discovery
\* returned no address returns success with total_pages = 0, and a run all
\* of whose pipelines failed returns partial.
C36_StatusNeverFailed ==
    /\ progress.status \in {"unset", "success", "partial"}
    /\ \A n \in DOMAIN crawl_progress : crawl_progress[n].status \in {"success", "partial"}
    /\ cpc = "returned" => progress.status \in {"success", "partial"}
    /\ (cpc = "returned" /\ all_book_urls = <<>>) =>
          progress.status = "success" /\ progress.total_pages = 0
    /\ (cpc = "returned" /\ tasks # <<>> /\ Counted(tasks) = {}) =>
          progress.status = "partial"

\* Every pipeline of a run of two addresses failed and the run returned
\* with its final snapshot persisted.
C36_Witness ==
    /\ cpc = "returned"
    /\ Len(tasks) = 2
    /\ Counted(tasks) = {}
    /\ completed_books = 0
    /\ saved > 0
    /\ crawl_progress[1].status = "partial"
    /\ crawl_progress[1].failed_pages = Range(book_urls)

\* ---------------------------------------------------------------- C37
\* C37: when the addresses to process are pairwise distinct, every pipeline
\* that has ended has exactly one outcome: it incremented completed_books
\* once and its address is not in failed_urls, or its address is in
\* failed_urls and it did not increment the counter; the counter is the
\* number of pipelines of the first kind.
C37_ExactlyOneOutcome ==
    Distinct(book_urls) =>
        /\ \A k \in DOMAIN tasks :
              tasks[k].pc = "done" =>
                  /\ tasks[k].counted <=> tasks[k].url \notin failed_urls
                  /\ tasks[k].counted <=> tasks[k].failed_stage = "none"
        /\ completed_books = Cardinality(Counted(tasks))
        /\ failed_urls = FailedTasks(tasks)

\* Of two pipelines for distinct addresses one stored its book and the
\* other failed, and the run returned.
C37_Witness ==
    /\ cpc = "returned"
    /\ Len(book_urls) = 2
    /\ Distinct(book_urls)
    /\ tasks[1].counted
    /\ tasks[2].failed_stage # "none"
    /\ completed_books = 1
    /\ failed_urls = {tasks[2].url}

\* ---------------------------------------------------------------- C38
\* C38: a save of the progress that fails is swallowed by
\* save_crawl_progress: the counters, the failed set and the stored snapshot
\* are as before, the next batch is gathered or the loop ends, and
\* crawl_all_books returns the progress built from the counters in memory,
\* whatever the store holds.
C38_FailedSaveIsSwallowed ==
    /\ [](cpc = "returned" =>
             progress = MakeProgress(total_books, completed_books, failed_urls))
    /\ [][(cpc \in {"save", "final_save"} /\ saved' = saved /\ cpc' # cpc) =>
             /\ completed_books' = completed_books
             /\ failed_urls' = failed_urls
             /\ crawl_progress' = crawl_progress
             /\ cpc = "save" =>
                   IF i + batch_size < Len(book_urls)
                   THEN cpc' = "gather" /\ tasks' = StartBatch(tasks, i + batch_size)
                   ELSE cpc' = "final_save"
             /\ cpc = "final_save" => cpc' = "returned" /\ progress' = progress]_vars

\* No save of a run of two batches succeeded: the run returned the progress
\* of its three stored books and the store holds no snapshot.
C38_Witness ==
    /\ cpc = "returned"
    /\ Len(book_urls) = 3
    /\ saved = 0
    /\ crawl_progress = <<>>
    /\ completed_books = 3
    /\ progress.completed_pages = 3
    /\ progress.status = "success"

====
